---- MODULE Spec2Model ----
(***************************************************************************)
(* A model of wagtail/admin/wagtail_hooks.py: the admin extension          *)
(* registrar.  The registration functions of the file populate the host's  *)
(* registries (menus, search areas, icons, rich-text features, log         *)
(* actions) at startup; the request-time callbacks (is_shown,              *)
(* page_listing_buttons, page_listing_more_buttons, the account menu       *)
(* callbacks and the audit-log message formatters) are then called with    *)
(* inputs drawn from bounded sets, and the call and its result are kept in *)
(* the variable returned.                                                  *)
(***************************************************************************)
EXTENDS Integers, Sequences, FiniteSets, TLC

VARIABLES
    startup,          \* the registration functions of the file that have run
    admin_menu,       \* items returned to the register_admin_menu_item hook
    settings_menu,    \* items returned to the register_settings_menu_item hook
    reports_menu,     \* items returned to the register_reports_menu_item hook
    search_areas,     \* areas returned to the register_admin_search_area hook
    icons,            \* the icon list handed to the register_icons hook
    features,         \* the rich-text feature registry (plugins and rules)
    actions,          \* the log action registry: the register_action calls
    returned          \* the last request-time call and what it returned

vars == <<startup, admin_menu, settings_menu, reports_menu, search_areas,
          icons, features, actions, returned>>

registries == <<admin_menu, settings_menu, reports_menu, search_areas,
                icons, features, actions>>

(***************************************************************************)
(* Bounds of the model.                                                    *)
(***************************************************************************)
\* the admin offers at most this many languages / time zones to choose from
MaxLanguages == 2
MaxTimeZones == 2
\* a user can explore at most this many pages
MaxExplorable == 1

(***************************************************************************)
(* Python values: None, str, bool and dict (a mapping from str keys).      *)
(***************************************************************************)
None == [kind |-> "none"]
Str(s) == [kind |-> "str", s |-> s]
Bool(b) == [kind |-> "bool", b |-> b]
Dict(f) == [kind |-> "dict", items |-> f]

\* Python truthiness of a value (the test of an if statement)
Truthy(v) ==
    CASE v.kind = "none" -> FALSE
      [] v.kind = "str"  -> v.s # ""
      [] v.kind = "bool" -> v.b
      [] v.kind = "dict" -> DOMAIN v.items # {}
      [] v.kind = "page" -> TRUE

\* '%s' % v and '{}'.format(v) of a leaf value
Format(v) ==
    CASE v.kind = "none" -> "None"
      [] v.kind = "str"  -> v.s
      [] v.kind = "bool" -> IF v.b THEN "True" ELSE "False"

(***************************************************************************)
(* django.urls.reverse: the URL of a named view, with its arguments.       *)
(***************************************************************************)
reverse(viewname, args) ==
    IF args = <<>> THEN "/" \o viewname \o "/"
    ELSE "/" \o viewname \o "/" \o args[1] \o "/"

\* append_querystring without the test of querystring
append_querystring_untested(path, querystring) ==
    path \o "?" \o Format(querystring)

\* append_querystring(path, querystring=None)
append_querystring(path, querystring) ==
    path \o (IF Truthy(querystring) THEN "?" \o Format(querystring) ELSE "")

(***************************************************************************)
(* Pages, page permissions and the arguments of the listing hooks.         *)
(***************************************************************************)
PageIds == {"7"}
PageTitles == {"Home"}
PageUrls == {None, Str(""), Str("/home/")}
NextUrls == {None, Str(""), Str("next=/admin/")}

Pages ==
    [id : PageIds, title : PageTitles, has_unpublished_changes : BOOLEAN,
     previewable : BOOLEAN, live : BOOLEAN, url : PageUrls]

PagePerms ==
    [can_edit : BOOLEAN, can_add_subpage : BOOLEAN, can_move : BOOLEAN,
     can_copy : BOOLEAN, can_delete : BOOLEAN, can_unpublish : BOOLEAN,
     can_view_revisions : BOOLEAN]

\* page.get_admin_display_title()
get_admin_display_title(page) == page.title

\* the buttons page_listing_buttons yields, in yield order
EditButton(page) ==
    [cls |-> "PageListingButton", label |-> "Edit",
     url |-> reverse("wagtailadmin_pages:edit", <<page.id>>),
     attrs |-> [aria_label |-> "Edit '" \o get_admin_display_title(page) \o "'"],
     priority |-> 10]

ViewDraftButton(page) ==
    [cls |-> "PageListingButton", label |-> "View draft",
     url |-> reverse("wagtailadmin_pages:view_draft", <<page.id>>),
     attrs |-> [aria_label |-> "Preview draft version of '"
                               \o get_admin_display_title(page) \o "'",
                target |-> "_blank", rel |-> "noopener noreferrer"],
     priority |-> 20]

ViewLiveButton(page) ==
    [cls |-> "PageListingButton", label |-> "View live",
     url |-> Format(page.url),
     attrs |-> [target |-> "_blank", rel |-> "noopener noreferrer",
                aria_label |-> "View live version of '"
                               \o get_admin_display_title(page) \o "'"],
     priority |-> 30]

AddChildPageButton(page, is_parent) ==
    IF is_parent
    THEN [cls |-> "Button", label |-> "Add child page",
          url |-> reverse("wagtailadmin_pages:add_subpage", <<page.id>>),
          attrs |-> [aria_label |-> "Add a child page to '"
                                    \o get_admin_display_title(page) \o "' "],
          classes |-> {"button", "button-small", "bicolor", "icon", "white",
                       "icon-plus"},
          priority |-> 40]
    ELSE [cls |-> "PageListingButton", label |-> "Add child page",
          url |-> reverse("wagtailadmin_pages:add_subpage", <<page.id>>),
          attrs |-> [aria_label |-> "Add a child page to '"
                                    \o get_admin_display_title(page) \o "' "],
          priority |-> 40]

MoreButton(page, page_perms, is_parent, next_url) ==
    [cls |-> "ButtonWithDropdownFromHook", label |-> "More",
     hook_name |-> "register_page_listing_more_buttons",
     page |-> page, page_perms |-> page_perms, is_parent |-> is_parent,
     next_url |-> next_url,
     attrs |-> [target |-> "_blank", rel |-> "noopener noreferrer",
                title |-> "View more options for '"
                          \o get_admin_display_title(page) \o "'"],
     priority |-> 50]

\* the sequence <<b>> when the if statement's condition holds, else nothing
YieldIf(cond, b) == IF cond THEN <<b>> ELSE <<>>

\* page_listing_buttons with 'View live' tested on page.live alone
page_listing_buttons_live_only(page, page_perms, is_parent, next_url) ==
       YieldIf(page_perms.can_edit, EditButton(page))
    \o YieldIf(page.has_unpublished_changes /\ page.previewable,
               ViewDraftButton(page))
    \o YieldIf(page.live, ViewLiveButton(page))
    \o YieldIf(page_perms.can_add_subpage, AddChildPageButton(page, is_parent))
    \o <<MoreButton(page, page_perms, is_parent, next_url)>>

\* page_listing_buttons yielding the 'More' button before 'Add child page'
page_listing_buttons_more_early(page, page_perms, is_parent, next_url) ==
       YieldIf(page_perms.can_edit, EditButton(page))
    \o YieldIf(page.has_unpublished_changes /\ page.previewable,
               ViewDraftButton(page))
    \o YieldIf(page.live /\ Truthy(page.url), ViewLiveButton(page))
    \o <<MoreButton(page, page_perms, is_parent, next_url)>>
    \o YieldIf(page_perms.can_add_subpage, AddChildPageButton(page, is_parent))

\* page_listing_buttons(page, page_perms, is_parent=False, next_url=None)
page_listing_buttons(page, page_perms, is_parent, next_url) ==
       YieldIf(page_perms.can_edit, EditButton(page))
    \o YieldIf(page.has_unpublished_changes /\ page.previewable,
               ViewDraftButton(page))
    \o YieldIf(page.live /\ Truthy(page.url), ViewLiveButton(page))
    \o YieldIf(page_perms.can_add_subpage, AddChildPageButton(page, is_parent))
    \o <<MoreButton(page, page_perms, is_parent, next_url)>>

\* the buttons page_listing_more_buttons yields
MoreDropdownButton(label, url, title, priority) ==
    [cls |-> "Button", label |-> label, url |-> url,
     attrs |-> [title |-> title], priority |-> priority]

\* page_listing_more_buttons with 'Unpublish' tested on can_delete()
page_listing_more_buttons_swapped(page, page_perms, is_parent, next_url) ==
       YieldIf(page_perms.can_move,
               MoreDropdownButton("Move",
                   reverse("wagtailadmin_pages:move", <<page.id>>),
                   "Move page '" \o get_admin_display_title(page) \o "'", 10))
    \o YieldIf(page_perms.can_copy,
               MoreDropdownButton("Copy",
                   append_querystring(
                       reverse("wagtailadmin_pages:copy", <<page.id>>), next_url),
                   "Copy page '" \o get_admin_display_title(page) \o "'", 20))
    \o YieldIf(page_perms.can_delete,
               MoreDropdownButton("Delete",
                   append_querystring(
                       reverse("wagtailadmin_pages:delete", <<page.id>>), next_url),
                   "Delete page '" \o get_admin_display_title(page) \o "'", 30))
    \o YieldIf(page_perms.can_delete,
               MoreDropdownButton("Unpublish",
                   append_querystring(
                       reverse("wagtailadmin_pages:unpublish", <<page.id>>), next_url),
                   "Unpublish page '" \o get_admin_display_title(page) \o "'", 40))
    \o YieldIf(page_perms.can_view_revisions,
               MoreDropdownButton("Revisions",
                   reverse("wagtailadmin_pages:revisions_index", <<page.id>>),
                   "View revision history for '"
                       \o get_admin_display_title(page) \o "'", 50))
    \o YieldIf(page_perms.can_view_revisions,
               MoreDropdownButton("History",
                   reverse("wagtailadmin_pages:history", <<page.id>>),
                   "View page history for '"
                       \o get_admin_display_title(page) \o "'", 50))

\* page_listing_more_buttons(page, page_perms, is_parent=False, next_url=None)
page_listing_more_buttons(page, page_perms, is_parent, next_url) ==
       YieldIf(page_perms.can_move,
               MoreDropdownButton("Move",
                   reverse("wagtailadmin_pages:move", <<page.id>>),
                   "Move page '" \o get_admin_display_title(page) \o "'", 10))
    \o YieldIf(page_perms.can_copy,
               MoreDropdownButton("Copy",
                   append_querystring(
                       reverse("wagtailadmin_pages:copy", <<page.id>>), next_url),
                   "Copy page '" \o get_admin_display_title(page) \o "'", 20))
    \o YieldIf(page_perms.can_delete,
               MoreDropdownButton("Delete",
                   append_querystring(
                       reverse("wagtailadmin_pages:delete", <<page.id>>), next_url),
                   "Delete page '" \o get_admin_display_title(page) \o "'", 30))
    \o YieldIf(page_perms.can_unpublish,
               MoreDropdownButton("Unpublish",
                   append_querystring(
                       reverse("wagtailadmin_pages:unpublish", <<page.id>>), next_url),
                   "Unpublish page '" \o get_admin_display_title(page) \o "'", 40))
    \o YieldIf(page_perms.can_view_revisions,
               MoreDropdownButton("Revisions",
                   reverse("wagtailadmin_pages:revisions_index", <<page.id>>),
                   "View revision history for '"
                       \o get_admin_display_title(page) \o "'", 50))
    \o YieldIf(page_perms.can_view_revisions,
               MoreDropdownButton("History",
                   reverse("wagtailadmin_pages:history", <<page.id>>),
                   "View page history for '"
                       \o get_admin_display_title(page) \o "'", 50))

(***************************************************************************)
(* Users, requests and the capability checks the callbacks delegate to.    *)
(***************************************************************************)
PolicyActions == {"add", "change", "delete", "choose"}

\* the permissions a user holds under a permission policy
PolicyPerms == {{}} \cup {{a} : a \in PolicyActions}

AllUsers ==
    [has_any_page_permission : BOOLEAN, can_edit_pages : BOOLEAN,
     can_publish_pages : BOOLEAN, can_remove_locks : BOOLEAN,
     has_usable_password : BOOLEAN,
     explorable_pages : {1..n : n \in 0..MaxExplorable},
     collection_perms : PolicyPerms, workflow_perms : PolicyPerms]

\* the users of the model: every page capability with no policy permission,
\* and every policy permission with no page capability
Users ==
    {u \in AllUsers :
        \/ u.collection_perms = {} /\ u.workflow_perms = {}
        \/ /\ ~u.has_any_page_permission /\ ~u.can_edit_pages
           /\ ~u.can_publish_pages /\ ~u.can_remove_locks
           /\ ~u.has_usable_password /\ u.explorable_pages = {}}

RequestPaths == {"/admin/", "/admin/pages/"}

Requests == [user : Users, path : RequestPaths]

\* wagtail.admin.auth.user_has_any_page_permission(user)
user_has_any_page_permission(user) == user.has_any_page_permission

\* the permission policy's user_has_any_permission(user, actions)
user_has_any_permission(perms, policy_actions) ==
    \E i \in 1..Len(policy_actions) : policy_actions[i] \in perms

\* UserPagePermissionsProxy(user).can_remove_locks()
can_remove_locks(user) == user.can_remove_locks

\* UserPagePermissionsProxy(user).explorable_pages().exists()
explorable_pages_exists(user) == user.explorable_pages # {}

\* UserPagePermissionsProxy(user).can_edit_pages() / can_publish_pages()
can_edit_pages(user) == user.can_edit_pages
can_publish_pages(user) == user.can_publish_pages

(***************************************************************************)
(* The menu items and search areas of the file, and their is_shown.        *)
(***************************************************************************)
ExplorerMenuItem_is_shown(request) ==
    user_has_any_page_permission(request.user)

PageSearchArea_is_shown(request) ==
    user_has_any_page_permission(request.user)

\* CollectionsMenuItem.is_shown asking for 'choose' as well
CollectionsMenuItem_is_shown_any_action(request) ==
    user_has_any_permission(request.user.collection_perms,
                            <<"add", "change", "delete", "choose">>)

CollectionsMenuItem_is_shown(request) ==
    user_has_any_permission(request.user.collection_perms,
                            <<"add", "change", "delete">>)

WorkflowsMenuItem_is_shown(request) ==
    user_has_any_permission(request.user.workflow_perms,
                            <<"add", "change", "delete">>)

LockedPagesMenuItem_is_shown(request) == can_remove_locks(request.user)

WorkflowReportMenuItem_is_shown(request) == TRUE

SiteHistoryReportMenuItem_is_shown(request) ==
    explorable_pages_exists(request.user)

\* the classes of this file that define is_shown
ShownClasses ==
    {"ExplorerMenuItem", "PageSearchArea", "CollectionsMenuItem",
     "WorkflowsMenuItem", "LockedPagesMenuItem", "WorkflowReportMenuItem",
     "SiteHistoryReportMenuItem"}

\* item.is_shown(request): the method of the item's class
is_shown(item, request) ==
    CASE item.cls = "ExplorerMenuItem" -> ExplorerMenuItem_is_shown(request)
      [] item.cls = "PageSearchArea" -> PageSearchArea_is_shown(request)
      [] item.cls = "CollectionsMenuItem" -> CollectionsMenuItem_is_shown(request)
      [] item.cls = "WorkflowsMenuItem" -> WorkflowsMenuItem_is_shown(request)
      [] item.cls = "LockedPagesMenuItem" -> LockedPagesMenuItem_is_shown(request)
      [] item.cls = "WorkflowReportMenuItem" ->
             WorkflowReportMenuItem_is_shown(request)
      [] item.cls = "SiteHistoryReportMenuItem" ->
             SiteHistoryReportMenuItem_is_shown(request)

\* wagtail.admin.navigation.get_explorable_root_page(user): the root of the
\* pages the user can explore, None when there are none
get_explorable_root_page(user) ==
    IF user.explorable_pages = {} THEN None
    ELSE [kind |-> "page", id |-> 1]

\* MenuItem.get_context(request): a new mapping built from the item
MenuItem_get_context(item, request) ==
    [name |-> item.name, url |-> item.url, label |-> item.label,
     icon_name |-> item.icon_name, request |-> request]

\* ExplorerMenuItem.get_context(request)
ExplorerMenuItem_get_context(item, request) ==
    LET context == MenuItem_get_context(item, request)
        start_page == get_explorable_root_page(request.user)
    IN  IF Truthy(start_page)
        THEN [k \in DOMAIN context \cup {"start_page_id"} |->
                 IF k = "start_page_id" THEN start_page.id ELSE context[k]]
        ELSE context

\* what the register_*_menu_item and search area functions return
register_explorer_menu_item ==
    [cls |-> "ExplorerMenuItem", label |-> "Pages",
     url |-> reverse("wagtailadmin_explore_root", <<>>),
     name |-> "explorer", icon_name |-> "folder-open-inverse", order |-> 100]

register_settings_menu ==
    [cls |-> "SettingsMenuItem", label |-> "Settings", menu |-> "settings_menu",
     icon_name |-> "cogs", order |-> 10000]

register_pages_search_area ==
    [cls |-> "PageSearchArea", label |-> "Pages",
     url |-> reverse("wagtailadmin_pages:search", <<>>),
     name |-> "pages", classnames |-> "icon icon-folder-open-inverse",
     order |-> 100]

register_collections_menu_item ==
    [cls |-> "CollectionsMenuItem", label |-> "Collections",
     url |-> reverse("wagtailadmin_collections:index", <<>>),
     icon_name |-> "folder-open-1", order |-> 700]

register_workflows_menu_item ==
    [cls |-> "WorkflowsMenuItem", label |-> "Workflows",
     url |-> reverse("wagtailadmin_workflows:index", <<>>),
     icon_name |-> "clipboard-list", order |-> 100]

register_locked_pages_menu_item ==
    [cls |-> "LockedPagesMenuItem", label |-> "Locked Pages",
     url |-> reverse("wagtailadmin_reports:locked_pages", <<>>),
     classnames |-> "icon icon-locked", order |-> 700]

register_workflow_report_menu_item ==
    [cls |-> "WorkflowReportMenuItem", label |-> "Workflows",
     url |-> reverse("wagtailadmin_reports:workflow", <<>>),
     classnames |-> "icon icon-clipboard-list", order |-> 800]

register_workflow_tasks_report_menu_item ==
    [cls |-> "WorkflowReportMenuItem", label |-> "Workflow tasks",
     url |-> reverse("wagtailadmin_reports:workflow_tasks", <<>>),
     classnames |-> "icon icon-clipboard-list", order |-> 900]

register_site_history_report_menu_item ==
    [cls |-> "SiteHistoryReportMenuItem", label |-> "Site history",
     url |-> reverse("wagtailadmin_reports:site_history", <<>>),
     classnames |-> "icon icon-cogs", order |-> 1000]

register_reports_menu ==
    [cls |-> "ReportsMenuItem", label |-> "Reports", menu |-> "reports_menu",
     classnames |-> "icon icon-site", order |-> 9000]

(***************************************************************************)
(* The register_account_menu_item callbacks.  env holds what the feature   *)
(* checks of the account views and of the localization module answer.      *)
(***************************************************************************)
Envs ==
    [email_management_enabled : BOOLEAN, password_management_enabled : BOOLEAN,
     admin_languages : {1..n : n \in 0..MaxLanguages},
     admin_time_zones : {1..n : n \in 0..MaxTimeZones}]

\* len(get_available_admin_languages()) / len(get_available_admin_time_zones())
len_available_admin_languages(env) == Cardinality(env.admin_languages)
len_available_admin_time_zones(env) == Cardinality(env.admin_time_zones)

\* the dict an account callback returns
AccountItem(viewname, label, help_text) ==
    Dict([k \in {"url", "label", "help_text"} |->
            CASE k = "url" -> Str(reverse(viewname, <<>>))
              [] k = "label" -> Str(label)
              [] k = "help_text" -> Str(help_text)])

register_account_set_profile_picture(request, env) ==
    AccountItem("wagtailadmin_account_change_avatar", "Set profile picture",
                "Change your profile picture.")

register_account_change_email(request, env) ==
    IF env.email_management_enabled
    THEN AccountItem("wagtailadmin_account_change_email", "Change email",
                     "Change the email address linked to your account.")
    ELSE None

register_account_change_password(request, env) ==
    IF env.password_management_enabled /\ request.user.has_usable_password
    THEN AccountItem("wagtailadmin_account_change_password", "Change password",
                     "Change the password you use to log in.")
    ELSE None

\* register_account_notification_preferences asking for both capabilities
register_account_notification_preferences_both(request, env) ==
    IF can_edit_pages(request.user) /\ can_publish_pages(request.user)
    THEN AccountItem("wagtailadmin_account_notification_preferences",
                     "Notification preferences",
                     "Choose which email notifications to receive.")
    ELSE None

register_account_notification_preferences(request, env) ==
    IF can_edit_pages(request.user) \/ can_publish_pages(request.user)
    THEN AccountItem("wagtailadmin_account_notification_preferences",
                     "Notification preferences",
                     "Choose which email notifications to receive.")
    ELSE None

register_account_preferred_language_preferences(request, env) ==
    IF len_available_admin_languages(env) > 1
    THEN AccountItem("wagtailadmin_account_language_preferences",
                     "Language preferences",
                     "Choose the language you want to use here.")
    ELSE None

register_account_current_time_zone(request, env) ==
    IF len_available_admin_time_zones(env) > 1
    THEN AccountItem("wagtailadmin_account_current_time_zone",
                     "Current Time Zone", "Choose your current time zone.")
    ELSE None

register_account_change_name(request, env) ==
    AccountItem("wagtailadmin_account_change_name", "Change name",
                "Change your first and last name on your account.")

\* the callbacks registered under register_account_menu_item, in file order
AccountHooks ==
    <<"register_account_set_profile_picture", "register_account_change_email",
      "register_account_change_password",
      "register_account_notification_preferences",
      "register_account_preferred_language_preferences",
      "register_account_current_time_zone", "register_account_change_name">>

\* calling the account callback named fn
CallAccountHook(fn, request, env) ==
    CASE fn = "register_account_set_profile_picture" ->
             register_account_set_profile_picture(request, env)
      [] fn = "register_account_change_email" ->
             register_account_change_email(request, env)
      [] fn = "register_account_change_password" ->
             register_account_change_password(request, env)
      [] fn = "register_account_notification_preferences" ->
             register_account_notification_preferences(request, env)
      [] fn = "register_account_preferred_language_preferences" ->
             register_account_preferred_language_preferences(request, env)
      [] fn = "register_account_current_time_zone" ->
             register_account_current_time_zone(request, env)
      [] fn = "register_account_change_name" ->
             register_account_change_name(request, env)

(***************************************************************************)
(* register_core_features: the calls made on the feature registry, in the  *)
(* order of the file.                                                      *)
(***************************************************************************)
RegisterEditorPlugin(editor, feature, plugin) ==
    [call |-> "register_editor_plugin", editor |-> editor,
     feature |-> feature, plugin |-> plugin]

RegisterConverterRule(converter, feature, rule) ==
    [call |-> "register_converter_rule", converter |-> converter,
     feature |-> feature, rule |-> rule]

\* WhitelistRule(element, allow_without_attributes)
WhitelistRule(element) ==
    [cls |-> "WhitelistRule", element |-> element,
     handler |-> "allow_without_attributes"]

headings_elements == <<"h1", "h2", "h3", "h4", "h5", "h6">>

\* the Hallo.js part of register_core_features, up to the headings loop
HalloCallsBeforeHeadings ==
    << RegisterEditorPlugin("hallo", "hr",
           [cls |-> "HalloPlugin", name |-> "hallohr",
            js |-> <<"wagtailadmin/js/hallo-plugins/hallo-hr.js">>,
            order |-> 45]),
       RegisterConverterRule("editorhtml", "hr", <<WhitelistRule("hr")>>),
       RegisterEditorPlugin("hallo", "link",
           [cls |-> "HalloPlugin", name |-> "hallowagtaillink",
            js |-> <<"wagtailadmin/js/page-chooser-modal.js",
                     "wagtailadmin/js/hallo-plugins/hallo-wagtaillink.js">>]),
       RegisterConverterRule("editorhtml", "link",
           << [cls |-> "WhitelistRule", element |-> "a",
               handler |-> "attribute_rule({'href': check_url})"],
              [cls |-> "LinkTypeRule", linktype |-> "page",
               handler |-> "PageLinkHandler"] >>),
       RegisterEditorPlugin("hallo", "bold",
           [cls |-> "HalloFormatPlugin", format_name |-> "bold"]),
       RegisterConverterRule("editorhtml", "bold",
           <<WhitelistRule("b"), WhitelistRule("strong")>>),
       RegisterEditorPlugin("hallo", "italic",
           [cls |-> "HalloFormatPlugin", format_name |-> "italic"]),
       RegisterConverterRule("editorhtml", "italic",
           <<WhitelistRule("i"), WhitelistRule("em")>>) >>

\* the loop over headings_elements: the plugin, then the rule, of each heading;
\* the plugin's order is HalloHeadingPlugin.default_order + order_offset
HalloHeadingCalls ==
    [n \in 1..(2 * Len(headings_elements)) |->
        LET i == (n + 1) \div 2
            element == headings_elements[i]
        IN IF n % 2 = 1
           THEN RegisterEditorPlugin("hallo", element,
                    [cls |-> "HalloHeadingPlugin", element |-> element,
                     order_offset |-> i])
           ELSE RegisterConverterRule("editorhtml", element,
                    <<WhitelistRule(element)>>)]

\* the hallo list features with the converter rule of 'ul' left out
HalloListCalls_no_ul_rule ==
    << RegisterEditorPlugin("hallo", "ol",
           [cls |-> "HalloListPlugin", list_type |-> "ordered"]),
       RegisterConverterRule("editorhtml", "ol",
           <<WhitelistRule("ol"), WhitelistRule("li")>>),
       RegisterEditorPlugin("hallo", "ul",
           [cls |-> "HalloListPlugin", list_type |-> "unordered"]) >>

HalloListCalls ==
    << RegisterEditorPlugin("hallo", "ol",
           [cls |-> "HalloListPlugin", list_type |-> "ordered"]),
       RegisterConverterRule("editorhtml", "ol",
           <<WhitelistRule("ol"), WhitelistRule("li")>>),
       RegisterEditorPlugin("hallo", "ul",
           [cls |-> "HalloListPlugin", list_type |-> "unordered"]),
       RegisterConverterRule("editorhtml", "ul",
           <<WhitelistRule("ul"), WhitelistRule("li")>>) >>

\* the handlers of html_to_contentstate, as constructed in the file
BlockElementHandler(block_type) ==
    [cls |-> "BlockElementHandler", type |-> block_type]
InlineStyleElementHandler(style) ==
    [cls |-> "InlineStyleElementHandler", type |-> style]
ListElementHandler(list_item_type) ==
    [cls |-> "ListElementHandler", type |-> list_item_type]
ListItemElementHandler == [cls |-> "ListItemElementHandler"]
HorizontalRuleHandler == [cls |-> "HorizontalRuleHandler"]
ExternalLinkElementHandler(entity_type) ==
    [cls |-> "ExternalLinkElementHandler", type |-> entity_type]
PageLinkElementHandler(entity_type) ==
    [cls |-> "PageLinkElementHandler", type |-> entity_type]

\* a 'contentstate' rule: its two directions
ContentstateRule(from_database_format, map_kind, map) ==
    [from_database_format |-> from_database_format,
     to_database_format |-> [kind |-> map_kind, map |-> map]]

\* a block_map / style_map value: a tag, or an element inside a wrapper
Element(tag) == [element |-> tag, wrapper |-> ""]
WrappedElement(tag, wrapper) == [element |-> tag, wrapper |-> wrapper]
\* an entity_decorators value: the function that builds the element
Decorator(fn) == [decorator |-> fn]

\* the draftail plugin and contentstate rule of heading level i (h1..h6)
HeadingBlockTypes ==
    <<"header-one", "header-two", "header-three", "header-four",
      "header-five", "header-six">>
HeadingLabels == <<"H1", "H2", "H3", "H4", "H5", "H6">>
HeadingLevels == <<"1", "2", "3", "4", "5", "6">>

DraftailHeadingCalls ==
    [n \in 1..12 |->
        LET i == (n + 1) \div 2
        IN IF n % 2 = 1
           THEN RegisterEditorPlugin("draftail", headings_elements[i],
                    [cls |-> "BlockFeature", label |-> HeadingLabels[i],
                     type |-> HeadingBlockTypes[i],
                     description |-> "Heading " \o HeadingLevels[i]])
           ELSE RegisterConverterRule("contentstate", headings_elements[i],
                    ContentstateRule(
                        headings_elements[i] :>
                            BlockElementHandler(HeadingBlockTypes[i]),
                        "block_map",
                        HeadingBlockTypes[i] :> Element(headings_elements[i])))]

DraftailHrCalls ==
    << RegisterEditorPlugin("draftail", "hr",
           [cls |-> "BooleanFeature", option |-> "enableHorizontalRule"]),
       RegisterConverterRule("contentstate", "hr",
           ContentstateRule("hr" :> HorizontalRuleHandler,
               "entity_decorators",
               "HORIZONTAL_RULE" :> Decorator("DOM.create_element('hr')"))) >>

DraftailBlockCalls ==
    << RegisterEditorPlugin("draftail", "ul",
           [cls |-> "BlockFeature", type |-> "unordered-list-item",
            icon |-> "list-ul", description |-> "Bulleted list"]),
       RegisterConverterRule("contentstate", "ul",
           ContentstateRule(
               "ul" :> ListElementHandler("unordered-list-item")
                   @@ "li" :> ListItemElementHandler,
               "block_map",
               "unordered-list-item" :> WrappedElement("li", "ul"))),
       RegisterEditorPlugin("draftail", "ol",
           [cls |-> "BlockFeature", type |-> "ordered-list-item",
            icon |-> "list-ol", description |-> "Numbered list"]),
       RegisterConverterRule("contentstate", "ol",
           ContentstateRule(
               "ol" :> ListElementHandler("ordered-list-item")
                   @@ "li" :> ListItemElementHandler,
               "block_map",
               "ordered-list-item" :> WrappedElement("li", "ol"))),
       RegisterEditorPlugin("draftail", "blockquote",
           [cls |-> "BlockFeature", type |-> "blockquote",
            icon |-> "openquote", description |-> "Blockquote"]),
       RegisterConverterRule("contentstate", "blockquote",
           ContentstateRule("blockquote" :> BlockElementHandler("blockquote"),
               "block_map", "blockquote" :> Element("blockquote"))) >>

\* an inline style feature whose rule accepts one tag
InlineStyleCalls(feature, style, icon, description, tag) ==
    << RegisterEditorPlugin("draftail", feature,
           [cls |-> "InlineStyleFeature", type |-> style, icon |-> icon,
            description |-> description]),
       RegisterConverterRule("contentstate", feature,
           ContentstateRule(tag :> InlineStyleElementHandler(style),
               "style_map", style :> Element(tag))) >>

\* the bold and italic rules with italic written as the bold tag
DraftailBoldItalicCalls_same_tag ==
    << RegisterEditorPlugin("draftail", "bold",
           [cls |-> "InlineStyleFeature", type |-> "BOLD", icon |-> "bold",
            description |-> "Bold"]),
       RegisterConverterRule("contentstate", "bold",
           ContentstateRule(
               "b" :> InlineStyleElementHandler("BOLD")
                   @@ "strong" :> InlineStyleElementHandler("BOLD"),
               "style_map", "BOLD" :> Element("b"))),
       RegisterEditorPlugin("draftail", "italic",
           [cls |-> "InlineStyleFeature", type |-> "ITALIC", icon |-> "italic",
            description |-> "Italic"]),
       RegisterConverterRule("contentstate", "italic",
           ContentstateRule(
               "i" :> InlineStyleElementHandler("ITALIC")
                   @@ "em" :> InlineStyleElementHandler("ITALIC"),
               "style_map", "ITALIC" :> Element("b"))) >>

DraftailBoldItalicCalls ==
    << RegisterEditorPlugin("draftail", "bold",
           [cls |-> "InlineStyleFeature", type |-> "BOLD", icon |-> "bold",
            description |-> "Bold"]),
       RegisterConverterRule("contentstate", "bold",
           ContentstateRule(
               "b" :> InlineStyleElementHandler("BOLD")
                   @@ "strong" :> InlineStyleElementHandler("BOLD"),
               "style_map", "BOLD" :> Element("b"))),
       RegisterEditorPlugin("draftail", "italic",
           [cls |-> "InlineStyleFeature", type |-> "ITALIC", icon |-> "italic",
            description |-> "Italic"]),
       RegisterConverterRule("contentstate", "italic",
           ContentstateRule(
               "i" :> InlineStyleElementHandler("ITALIC")
                   @@ "em" :> InlineStyleElementHandler("ITALIC"),
               "style_map", "ITALIC" :> Element("i"))) >>

\* the link feature with a whitelist pattern that does not end 'undefined'
DraftailLinkCalls_open_ended ==
    << RegisterEditorPlugin("draftail", "link",
           [cls |-> "EntityFeature", type |-> "LINK", icon |-> "link",
            description |-> "Link",
            attributes |-> <<"url", "id", "parentId">>,
            whitelist |-> [href |-> "^(http:|https:|undefined)"],
            js |-> <<"wagtailadmin/js/page-chooser-modal.js">>]),
       RegisterConverterRule("contentstate", "link",
           ContentstateRule(
               "a[href]" :> ExternalLinkElementHandler("LINK")
                   @@ "a[linktype=\"page\"]" :> PageLinkElementHandler("LINK"),
               "entity_decorators", "LINK" :> Decorator("link_entity"))) >>

DraftailLinkCalls ==
    << RegisterEditorPlugin("draftail", "link",
           [cls |-> "EntityFeature", type |-> "LINK", icon |-> "link",
            description |-> "Link",
            attributes |-> <<"url", "id", "parentId">>,
            whitelist |-> [href |-> "^(http:|https:|undefined$)"],
            js |-> <<"wagtailadmin/js/page-chooser-modal.js">>]),
       RegisterConverterRule("contentstate", "link",
           ContentstateRule(
               "a[href]" :> ExternalLinkElementHandler("LINK")
                   @@ "a[linktype=\"page\"]" :> PageLinkElementHandler("LINK"),
               "entity_decorators", "LINK" :> Decorator("link_entity"))) >>

\* the inline style rules with SUPERSCRIPT written as the subscript tag
DraftailInlineCalls_sup_as_sub ==
       << RegisterEditorPlugin("draftail", "superscript",
              [cls |-> "InlineStyleFeature", type |-> "SUPERSCRIPT",
               icon |-> "superscript", description |-> "Superscript"]),
          RegisterConverterRule("contentstate", "superscript",
              ContentstateRule("sup" :> InlineStyleElementHandler("SUPERSCRIPT"),
                  "style_map", "SUPERSCRIPT" :> Element("sub"))) >>
    \o InlineStyleCalls("subscript", "SUBSCRIPT", "subscript", "Subscript",
                        "sub")
    \o InlineStyleCalls("strikethrough", "STRIKETHROUGH", "strikethrough",
                        "Strikethrough", "s")
    \o InlineStyleCalls("code", "CODE", "code", "Code", "code")

DraftailInlineCalls ==
       InlineStyleCalls("superscript", "SUPERSCRIPT", "superscript",
                        "Superscript", "sup")
    \o InlineStyleCalls("subscript", "SUBSCRIPT", "subscript", "Subscript",
                        "sub")
    \o InlineStyleCalls("strikethrough", "STRIKETHROUGH", "strikethrough",
                        "Strikethrough", "s")
    \o InlineStyleCalls("code", "CODE", "code", "Code", "code")

\* register_core_features(features): every call, appended to the registry
register_core_features(registry) ==
       registry
    \o HalloCallsBeforeHeadings \o HalloHeadingCalls \o HalloListCalls
    \o DraftailHrCalls \o DraftailHeadingCalls \o DraftailBlockCalls
    \o DraftailBoldItalicCalls \o DraftailLinkCalls \o DraftailInlineCalls

(***************************************************************************)
(* register_icons: the icon files of the admin, appended to the icon list. *)
(***************************************************************************)
IconFiles ==
    << "arrow-down-big.svg", "arrow-down.svg", "arrow-left.svg",
       "arrow-right.svg", "arrow-up-big.svg", "arrow-up.svg",
       "arrows-up-down.svg", "bin.svg", "bold.svg", "chain-broken.svg",
       "clipboard-list.svg", "code.svg", "cog.svg", "cogs.svg",
       "collapse-down.svg", "collapse-up.svg", "cross.svg", "date.svg",
       "doc-empty-inverse.svg", "doc-empty.svg", "doc-full-inverse.svg",
       "doc-full.svg", "download.svg", "edit.svg", "failure.svg",
       "folder-inverse.svg", "folder-open-1.svg",
       "folder-open-inverse.svg", "folder.svg", "form.svg", "grip.svg",
       "group.svg", "help.svg", "home.svg", "horizontalrule.svg",
       "image.svg", "italic.svg", "link.svg", "list-ol.svg", "list-ul.svg",
       "lock-open.svg", "lock.svg", "logout.svg", "mail.svg", "media.svg",
       "no-view.svg", "openquote.svg", "order-down.svg", "order-up.svg",
       "order.svg", "password.svg", "pick.svg", "pilcrow.svg",
       "placeholder.svg", "plus-inverse.svg", "plus.svg",
       "radio-empty.svg", "radio-full.svg", "redirect.svg", "repeat.svg",
       "search.svg", "site.svg", "snippet.svg", "spinner.svg",
       "success.svg", "table.svg", "tag.svg", "tick-inverse.svg",
       "tick.svg", "time.svg", "title.svg", "undo.svg", "uni52.svg",
       "user.svg", "view.svg", "wagtail-inverse.svg", "wagtail.svg",
       "warning.svg" >>

\* 'wagtailadmin/icons/{}'.format(icon)
IconPath(icon) == "wagtailadmin/icons/" \o icon

\* register_icons with one icon file listed twice
register_icons_repeated(icon_list) ==
    icon_list \o [i \in 1..Len(IconFiles) |-> IconPath(IconFiles[i])]
              \o <<IconPath("cog.svg")>>

\* register_icons(icons): one append per icon file, in order
register_icons(icon_list) ==
    icon_list \o [i \in 1..Len(IconFiles) |-> IconPath(IconFiles[i])]

(***************************************************************************)
(* Evaluation of Python expressions that may raise.                        *)
(***************************************************************************)
Ok(v) == [exc |-> "none", val |-> v]
Raise(e) == [exc |-> e]

\* v[key]: KeyError on a dict without the key, TypeError on a value that is
\* not subscriptable by a str (None, a bool, a str)
Subscript(v, key) ==
    IF v.kind = "dict"
    THEN IF key \in DOMAIN v.items THEN Ok(v.items[key]) ELSE Raise("KeyError")
    ELSE Raise("TypeError")

\* data[path[1]][path[2]]...: the first subscript that raises ends it
RECURSIVE GetPath(_, _)
GetPath(v, path) ==
    IF path = <<>> THEN Ok(v)
    ELSE LET r == Subscript(v, Head(path))
         IN IF r.exc # "none" THEN r ELSE GetPath(r.val, Tail(path))

\* the first exception among the evaluated arguments, in evaluation order
RECURSIVE FirstRaised(_)
FirstRaised(results) ==
    IF results = <<>> THEN "none"
    ELSE IF Head(results).exc # "none" THEN Head(results).exc
    ELSE FirstRaised(Tail(results))

\* gettext_lazy(message)
gettext_lazy(message) == Str(message)

\* format_lazy(format_string, **kwargs): the keyword arguments are evaluated
\* first, left to right; the result is a lazy string holding them
format_lazy(format_string, names, results) ==
    IF FirstRaised(results) # "none" THEN Raise(FirstRaised(results))
    ELSE Ok([kind |-> "lazy", format_string |-> format_string,
             kwargs |-> [i \in 1..Len(names) |-> <<names[i], results[i].val>>]])

\* try: body / except caught: return fallback
TryExcept(body, caught, fallback) ==
    IF body.exc \in caught THEN Ok(fallback) ELSE body

(***************************************************************************)
(* The message formatters of register_core_log_actions.                    *)
(***************************************************************************)
revert_message(data) ==
    TryExcept(
        format_lazy(
            "Reverted to previous revision with id {revision_id} from {created_at}",
            <<"revision_id", "created_at">>,
            <<GetPath(data, <<"revision", "id">>),
              GetPath(data, <<"revision", "created">>)>>),
        {"KeyError"}, gettext_lazy("Reverted to previous revision"))

schedule_revert_message(data) ==
    TryExcept(
        format_lazy(
            "Scheduled revision {revision_id} from {created_at} for publishing at {go_live_at}.",
            <<"revision_id", "created_at", "go_live_at">>,
            <<GetPath(data, <<"revision", "id">>),
              GetPath(data, <<"revision", "created">>),
              GetPath(data, <<"revision", "go_live_at">>)>>),
        {"KeyError"}, gettext_lazy("Revision scheduled for publishing"))

copy_message(data) ==
    TryExcept(
        format_lazy("Copied from {title}", <<"title">>,
                    <<GetPath(data, <<"source", "title">>)>>),
        {"KeyError"}, gettext_lazy("Copied"))

move_message(data) ==
    TryExcept(
        format_lazy("Moved from '{old_parent}' to '{new_parent}'",
                    <<"old_parent", "new_parent">>,
                    <<GetPath(data, <<"source", "title">>),
                      GetPath(data, <<"destination", "title">>)>>),
        {"KeyError"}, gettext_lazy("Moved"))

\* the if of the two publish formatters testing that has_live_version is
\* there instead of its truth: always the revision message
IfHasLiveVersion_when_present(data, revision_format, page_format) ==
    LET cond == GetPath(data, <<"revision", "has_live_version">>)
    IN IF cond.exc # "none" THEN cond
       ELSE format_lazy(revision_format,
                <<"revision_id", "created_at", "go_live_at">>,
                <<GetPath(data, <<"revision", "id">>),
                  GetPath(data, <<"revision", "created">>),
                  GetPath(data, <<"revision", "go_live_at">>)>>)

\* the body shared in shape by schedule_publish_message and
\* unschedule_publish_message: the if on data['revision']['has_live_version']
IfHasLiveVersion(data, revision_format, page_format) ==
    LET cond == GetPath(data, <<"revision", "has_live_version">>)
    IN IF cond.exc # "none" THEN cond
       ELSE IF Truthy(cond.val)
       THEN format_lazy(revision_format,
                <<"revision_id", "created_at", "go_live_at">>,
                <<GetPath(data, <<"revision", "id">>),
                  GetPath(data, <<"revision", "created">>),
                  GetPath(data, <<"revision", "go_live_at">>)>>)
       ELSE format_lazy(page_format, <<"go_live_at">>,
                <<GetPath(data, <<"revision", "go_live_at">>)>>)

\* schedule_publish_message without the if: always the revision message
schedule_publish_message_no_branch(data) ==
    TryExcept(
        format_lazy(
            "Revision {revision_id} from {created_at} scheduled for publishing at {go_live_at}.",
            <<"revision_id", "created_at", "go_live_at">>,
            <<GetPath(data, <<"revision", "id">>),
              GetPath(data, <<"revision", "created">>),
              GetPath(data, <<"revision", "go_live_at">>)>>),
        {"KeyError"}, gettext_lazy("Page scheduled for publishing"))

schedule_publish_message(data) ==
    TryExcept(
        IfHasLiveVersion(data,
            "Revision {revision_id} from {created_at} scheduled for publishing at {go_live_at}.",
            "Page scheduled for publishing at {go_live_at}"),
        {"KeyError"}, gettext_lazy("Page scheduled for publishing"))

unschedule_publish_message(data) ==
    TryExcept(
        IfHasLiveVersion(data,
            "Revision {revision_id} from {created_at} unscheduled from publishing at {go_live_at}.",
            "Page unscheduled for publishing at {go_live_at}"),
        {"KeyError"}, gettext_lazy("Page unscheduled from publishing"))

add_view_restriction(data) ==
    TryExcept(
        format_lazy("Added the '{restriction}' view restriction",
                    <<"restriction">>,
                    <<GetPath(data, <<"restriction", "title">>)>>),
        {"KeyError"}, gettext_lazy("Added view restriction"))

edit_view_restriction(data) ==
    TryExcept(
        format_lazy("Updated the view restriction to '{restriction}'",
                    <<"restriction">>,
                    <<GetPath(data, <<"restriction", "title">>)>>),
        {"KeyError"}, gettext_lazy("Updated view restriction"))

delete_view_restriction(data) ==
    TryExcept(
        format_lazy("Removed the view restriction to '{restriction}'",
                    <<"restriction">>,
                    <<GetPath(data, <<"restriction", "title">>)>>),
        {"KeyError"}, gettext_lazy("Removed view restriction"))

(***************************************************************************)
(* The message formatters of register_workflow_log_actions.                *)
(***************************************************************************)
workflow_start_message(data) ==
    TryExcept(
        format_lazy("'{workflow}' started. Next step '{task}'",
                    <<"workflow", "task">>,
                    <<GetPath(data, <<"workflow", "title">>),
                      GetPath(data, <<"workflow", "next", "title">>)>>),
        {"KeyError", "TypeError"}, gettext_lazy("Workflow started"))

\* workflow_approve_message catching KeyError alone
workflow_approve_message_KeyError_only(data) ==
    TryExcept(
        LET cond == GetPath(data, <<"workflow", "next">>)
        IN IF cond.exc # "none" THEN cond
           ELSE IF Truthy(cond.val)
           THEN format_lazy("Approved at '{task}'. Next step '{next_task}'",
                    <<"task", "next_task">>,
                    <<GetPath(data, <<"workflow", "task", "title">>),
                      GetPath(data, <<"workflow", "next", "title">>)>>)
           ELSE format_lazy("Approved at '{task}'. '{workflow}' complete",
                    <<"task", "workflow">>,
                    <<GetPath(data, <<"workflow", "task", "title">>),
                      GetPath(data, <<"workflow", "title">>)>>),
        {"KeyError"}, gettext_lazy("Workflow task approved"))

workflow_approve_message(data) ==
    TryExcept(
        LET cond == GetPath(data, <<"workflow", "next">>)
        IN IF cond.exc # "none" THEN cond
           ELSE IF Truthy(cond.val)
           THEN format_lazy("Approved at '{task}'. Next step '{next_task}'",
                    <<"task", "next_task">>,
                    <<GetPath(data, <<"workflow", "task", "title">>),
                      GetPath(data, <<"workflow", "next", "title">>)>>)
           ELSE format_lazy("Approved at '{task}'. '{workflow}' complete",
                    <<"task", "workflow">>,
                    <<GetPath(data, <<"workflow", "task", "title">>),
                      GetPath(data, <<"workflow", "title">>)>>),
        {"KeyError", "TypeError"}, gettext_lazy("Workflow task approved"))

workflow_reject_message(data) ==
    TryExcept(
        format_lazy("Rejected at '{task}'. Workflow complete", <<"task">>,
                    <<GetPath(data, <<"workflow", "task", "title">>)>>),
        {"KeyError", "TypeError"},
        gettext_lazy("Workflow task rejected. Workflow complete"))

\* calling the formatter named fn
CallFormatter(fn, data) ==
    CASE fn = "revert_message" -> revert_message(data)
      [] fn = "schedule_revert_message" -> schedule_revert_message(data)
      [] fn = "copy_message" -> copy_message(data)
      [] fn = "move_message" -> move_message(data)
      [] fn = "schedule_publish_message" -> schedule_publish_message(data)
      [] fn = "unschedule_publish_message" -> unschedule_publish_message(data)
      [] fn = "add_view_restriction" -> add_view_restriction(data)
      [] fn = "edit_view_restriction" -> edit_view_restriction(data)
      [] fn = "delete_view_restriction" -> delete_view_restriction(data)
      [] fn = "workflow_start_message" -> workflow_start_message(data)
      [] fn = "workflow_approve_message" -> workflow_approve_message(data)
      [] fn = "workflow_reject_message" -> workflow_reject_message(data)

(***************************************************************************)
(* The register_action calls of the two register_log_actions functions.    *)
(***************************************************************************)
\* actions.register_action(action, label, message): message is a past-tense
\* label or one of the formatters above
RegisterAction(code, label, message) ==
    [code |-> code, label |-> label, message |-> message]
Label(text) == [kind |-> "label", s |-> text]
Formatter(fn) == [kind |-> "formatter", fn |-> fn]

register_core_log_actions(registry) ==
    registry \o
    << RegisterAction("wagtail.create", "Create", Label("Created")),
       RegisterAction("wagtail.edit", "Save draft", Label("Draft saved")),
       RegisterAction("wagtail.delete", "Delete", Label("Deleted")),
       RegisterAction("wagtail.publish", "Publish", Label("Published")),
       RegisterAction("wagtail.unpublish", "Unpublish", Label("Unpublished")),
       RegisterAction("wagtail.lock", "Lock", Label("Locked")),
       RegisterAction("wagtail.unlock", "Unlock", Label("Unlocked")),
       RegisterAction("wagtail.moderation.approve", "Approve",
                      Label("Approved")),
       RegisterAction("wagtail.moderation.reject", "Reject", Label("Rejected")),
       RegisterAction("wagtail.revert", "Revert", Formatter("revert_message")),
       RegisterAction("wagtail.schedule.revert", "Schedule revert",
                      Formatter("schedule_revert_message")),
       RegisterAction("wagtail.copy", "Copy", Formatter("copy_message")),
       RegisterAction("wagtail.move", "Move", Formatter("move_message")),
       RegisterAction("wagtail.schedule.publish", "Schedule publication",
                      Formatter("schedule_publish_message")),
       RegisterAction("wagtail.schedule.cancel", "Unschedule publication",
                      Formatter("unschedule_publish_message")),
       RegisterAction("wagtail.view_restriction.create",
                      "Add view restrictions", Formatter("add_view_restriction")),
       RegisterAction("wagtail.view_restriction.edit",
                      "Update view restrictions",
                      Formatter("edit_view_restriction")),
       RegisterAction("wagtail.view_restriction.delete",
                      "Remove view restrictions",
                      Formatter("delete_view_restriction")) >>

\* register_workflow_log_actions with the code of 'approve' repeating 'start'
register_workflow_log_actions_same_code(registry) ==
    registry \o
    << RegisterAction("wagtail.workflow.start", "Workflow: start",
                      Formatter("workflow_start_message")),
       RegisterAction("wagtail.workflow.start", "Workflow: approve task",
                      Formatter("workflow_approve_message")),
       RegisterAction("wagtail.workflow.reject", "Workflow: reject task",
                      Formatter("workflow_reject_message")) >>

register_workflow_log_actions(registry) ==
    registry \o
    << RegisterAction("wagtail.workflow.start", "Workflow: start",
                      Formatter("workflow_start_message")),
       RegisterAction("wagtail.workflow.approve", "Workflow: approve task",
                      Formatter("workflow_approve_message")),
       RegisterAction("wagtail.workflow.reject", "Workflow: reject task",
                      Formatter("workflow_reject_message")) >>

(***************************************************************************)
(* The event data handed to a formatter: a dict whose values are absent,   *)
(* None or nested dicts, with only some of their keys.                     *)
(***************************************************************************)
\* every dict over a subset of keys, the value of key k drawn from V(k)
DictsOver(keys, V(_)) ==
    {Dict(g) : g \in UNION {{h \in [K -> UNION {V(k) : k \in keys}] :
                                \A k \in K : h[k] \in V(k)} :
                            K \in SUBSET keys}}

TitleValues(k) == {Str("Old")}
TitleDicts == DictsOver({"title"}, TitleValues)

RevisionKeys == {"id", "created", "go_live_at", "has_live_version"}
RevisionValues(k) ==
    CASE k = "id" -> {Str("42")}
      [] k = "created" -> {Str("1 May")}
      [] k = "go_live_at" -> {Str("2 June")}
      [] k = "has_live_version" -> {Bool(TRUE), Bool(FALSE), None}
RevisionDicts == DictsOver(RevisionKeys, RevisionValues)

WorkflowKeys == {"title", "task", "next"}
WorkflowValues(k) ==
    CASE k = "title" -> {Str("Approval")}
      [] k = "task" -> {None} \cup TitleDicts
      [] k = "next" -> {None, Dict("id" :> Str("5"))} \cup TitleDicts
WorkflowDicts == DictsOver(WorkflowKeys, WorkflowValues)

\* the values of the top-level keys of the event data
DataValues(k) ==
    CASE k = "revision" -> {None} \cup RevisionDicts
      [] k = "workflow" -> {None} \cup WorkflowDicts
      [] OTHER -> {None} \cup TitleDicts

\* the top-level keys the formatter fn reads
DataKeys(fn) ==
    CASE fn \in {"revert_message", "schedule_revert_message",
                 "schedule_publish_message", "unschedule_publish_message"} ->
             {"revision"}
      [] fn = "copy_message" -> {"source"}
      [] fn = "move_message" -> {"source", "destination"}
      [] fn \in {"add_view_restriction", "edit_view_restriction",
                 "delete_view_restriction"} -> {"restriction"}
      [] fn \in {"workflow_start_message", "workflow_approve_message",
                 "workflow_reject_message"} -> {"workflow"}

EventData(fn) == DictsOver(DataKeys(fn), DataValues)

(***************************************************************************)
(* The state machine.                                                      *)
(***************************************************************************)
\* the registration functions of the file, by the hook they are registered
\* under, in the order of the file (the order a hook's functions are called)
HookFunctions ==
    [register_admin_menu_item |->
         <<"register_explorer_menu_item", "register_settings_menu",
           "register_reports_menu">>,
     register_admin_search_area |-> <<"register_pages_search_area">>,
     register_settings_menu_item |->
         <<"register_collections_menu_item", "register_workflows_menu_item">>,
     register_rich_text_features |-> <<"register_core_features">>,
     register_reports_menu_item |->
         <<"register_locked_pages_menu_item",
           "register_workflow_report_menu_item",
           "register_workflow_tasks_report_menu_item",
           "register_site_history_report_menu_item">>,
     register_icons |-> <<"register_icons">>,
     register_log_actions |->
         <<"register_core_log_actions", "register_workflow_log_actions">>]

RegistrationFunctions ==
    UNION {{HookFunctions[h][i] : i \in 1..Len(HookFunctions[h])} :
           h \in DOMAIN HookFunctions}

\* fn has not run, and the functions registered before it under hook have
CanRun(hook, fn) ==
    /\ fn \notin startup
    /\ \A i, j \in 1..Len(HookFunctions[hook]) :
           HookFunctions[hook][j] = fn /\ i < j =>
               HookFunctions[hook][i] \in startup

StartupDone == startup = RegistrationFunctions

\* the host is ready to call a request-time callback: startup is over and
\* it has used the result of the previous call
Idle == StartupDone /\ returned.op = "none"

Init ==
    /\ startup = {}
    /\ admin_menu = <<>>
    /\ settings_menu = <<>>
    /\ reports_menu = <<>>
    /\ search_areas = <<>>
    /\ icons = <<>>
    /\ features = <<>>
    /\ actions = <<>>
    /\ returned = [op |-> "none"]

\* the host calls one function of the register_admin_menu_item hook
RegisterAdminMenuItem ==
    \E fn \in {"register_explorer_menu_item", "register_settings_menu",
               "register_reports_menu"} :
        /\ CanRun("register_admin_menu_item", fn)
        /\ admin_menu' = Append(admin_menu,
               CASE fn = "register_explorer_menu_item" ->
                        register_explorer_menu_item
                 [] fn = "register_settings_menu" -> register_settings_menu
                 [] fn = "register_reports_menu" -> register_reports_menu)
        /\ startup' = startup \cup {fn}
        /\ UNCHANGED <<settings_menu, reports_menu, search_areas, icons,
                       features, actions, returned>>

RegisterAdminSearchArea ==
    /\ CanRun("register_admin_search_area", "register_pages_search_area")
    /\ search_areas' = Append(search_areas, register_pages_search_area)
    /\ startup' = startup \cup {"register_pages_search_area"}
    /\ UNCHANGED <<admin_menu, settings_menu, reports_menu, icons, features,
                   actions, returned>>

RegisterSettingsMenuItem ==
    \E fn \in {"register_collections_menu_item", "register_workflows_menu_item"} :
        /\ CanRun("register_settings_menu_item", fn)
        /\ settings_menu' = Append(settings_menu,
               IF fn = "register_collections_menu_item"
               THEN register_collections_menu_item
               ELSE register_workflows_menu_item)
        /\ startup' = startup \cup {fn}
        /\ UNCHANGED <<admin_menu, reports_menu, search_areas, icons, features,
                       actions, returned>>

RegisterReportsMenuItem ==
    \E fn \in {"register_locked_pages_menu_item",
               "register_workflow_report_menu_item",
               "register_workflow_tasks_report_menu_item",
               "register_site_history_report_menu_item"} :
        /\ CanRun("register_reports_menu_item", fn)
        /\ reports_menu' = Append(reports_menu,
               CASE fn = "register_locked_pages_menu_item" ->
                        register_locked_pages_menu_item
                 [] fn = "register_workflow_report_menu_item" ->
                        register_workflow_report_menu_item
                 [] fn = "register_workflow_tasks_report_menu_item" ->
                        register_workflow_tasks_report_menu_item
                 [] fn = "register_site_history_report_menu_item" ->
                        register_site_history_report_menu_item)
        /\ startup' = startup \cup {fn}
        /\ UNCHANGED <<admin_menu, settings_menu, search_areas, icons, features,
                       actions, returned>>

RegisterRichTextFeatures ==
    /\ CanRun("register_rich_text_features", "register_core_features")
    /\ features' = register_core_features(features)
    /\ startup' = startup \cup {"register_core_features"}
    /\ UNCHANGED <<admin_menu, settings_menu, reports_menu, search_areas, icons,
                   actions, returned>>

RegisterIcons ==
    /\ CanRun("register_icons", "register_icons")
    /\ icons' = register_icons(icons)
    /\ startup' = startup \cup {"register_icons"}
    /\ UNCHANGED <<admin_menu, settings_menu, reports_menu, search_areas,
                   features, actions, returned>>

RegisterLogActions ==
    \E fn \in {"register_core_log_actions", "register_workflow_log_actions"} :
        /\ CanRun("register_log_actions", fn)
        /\ actions' = IF fn = "register_core_log_actions"
                      THEN register_core_log_actions(actions)
                      ELSE register_workflow_log_actions(actions)
        /\ startup' = startup \cup {fn}
        /\ UNCHANGED <<admin_menu, settings_menu, reports_menu, search_areas,
                       icons, features, returned>>

\* the host renders a row of the page listing
PageListingButtons ==
    /\ Idle
    /\ \E page \in Pages, page_perms \in PagePerms, is_parent \in BOOLEAN,
          next_url \in NextUrls :
           returned' = [op |-> "page_listing_buttons", page |-> page,
                   page_perms |-> page_perms, is_parent |-> is_parent,
                   next_url |-> next_url,
                   out |-> page_listing_buttons(page, page_perms, is_parent,
                                                next_url)]
    /\ UNCHANGED <<startup, registries>>

\* the host renders the dropdown of the 'More' button
PageListingMoreButtons ==
    /\ Idle
    /\ \E page \in Pages, page_perms \in PagePerms, is_parent \in BOOLEAN,
          next_url \in NextUrls :
           returned' = [op |-> "page_listing_more_buttons", page |-> page,
                   page_perms |-> page_perms, is_parent |-> is_parent,
                   next_url |-> next_url,
                   out |-> page_listing_more_buttons(page, page_perms,
                                                     is_parent, next_url)]
    /\ UNCHANGED <<startup, registries>>

\* the items and areas registered so far whose class defines is_shown here
RegisteredItems ==
    {it \in {admin_menu[i] : i \in 1..Len(admin_menu)}
            \cup {settings_menu[i] : i \in 1..Len(settings_menu)}
            \cup {reports_menu[i] : i \in 1..Len(reports_menu)}
            \cup {search_areas[i] : i \in 1..Len(search_areas)} :
        it.cls \in ShownClasses}

\* the host asks a registered item whether to show it for a request
IsShown ==
    /\ Idle
    /\ \E item \in RegisteredItems, request \in Requests :
           returned' = [op |-> "is_shown", item |-> item, request |-> request,
                   out |-> is_shown(item, request)]
    /\ UNCHANGED <<startup, registries>>

\* the account view calls one register_account_menu_item callback
AccountMenuItem ==
    /\ Idle
    /\ \E i \in 1..Len(AccountHooks), request \in Requests, env \in Envs :
           returned' = [op |-> "account_menu_item", fn |-> AccountHooks[i],
                   request |-> request, env |-> env,
                   out |-> CallAccountHook(AccountHooks[i], request, env)]
    /\ UNCHANGED <<startup, registries>>

\* the log renders an entry: the formatter registered for its action is
\* called with the entry's data
LogMessage ==
    /\ Idle
    /\ \E i \in 1..Len(actions) :
           /\ actions[i].message.kind = "formatter"
           /\ \E data \in EventData(actions[i].message.fn) :
                  returned' = [op |-> "message", code |-> actions[i].code,
                          fn |-> actions[i].message.fn, data |-> data,
                          out |-> CallFormatter(actions[i].message.fn, data)]
    /\ UNCHANGED <<startup, registries>>

\* get_context with the start page written to the registered item instead of
\* the context of the call
GetContext_on_item ==
    /\ Idle
    /\ \E i \in 1..Len(admin_menu), request \in Requests :
           /\ admin_menu[i].cls = "ExplorerMenuItem"
           /\ returned' = [op |-> "get_context", item |-> admin_menu[i],
                   request |-> request,
                   out |-> MenuItem_get_context(admin_menu[i], request)]
           /\ admin_menu' =
                  [admin_menu EXCEPT ![i] =
                      ExplorerMenuItem_get_context(admin_menu[i], request)]
    /\ UNCHANGED <<startup, settings_menu, reports_menu, search_areas, icons,
                   features, actions>>

\* the host renders the explorer menu item for a request
GetContext ==
    /\ Idle
    /\ \E i \in 1..Len(admin_menu), request \in Requests :
           /\ admin_menu[i].cls = "ExplorerMenuItem"
           /\ returned' = [op |-> "get_context", item |-> admin_menu[i],
                   request |-> request,
                   out |-> ExplorerMenuItem_get_context(admin_menu[i],
                                                        request)]
    /\ UNCHANGED <<startup, registries>>

(***************************************************************************)
(* The editor applying the options of the link plugin to the data of a     *)
(* link entity: the whitelist pattern is tested against data.href (the     *)
(* text 'undefined' when the data has no href), and the data is cut down   *)
(* to the attributes of the plugin.                                        *)
(***************************************************************************)
\* s starts with prefix
StartsWith(s, prefix) ==
    Len(s) >= Len(prefix) /\ SubSeq(s, 1, Len(prefix)) = prefix

\* the alternatives of a group: the texts between its bars
Alternatives(group) ==
    LET bars == {0, Len(group) + 1}
                    \cup {i \in 1..Len(group) : SubSeq(group, i, i) = "|"}
    IN  {SubSeq(group, a + 1, b - 1) :
            <<a, b>> \in {pair \in bars \X bars :
                /\ pair[1] < pair[2]
                /\ \A k \in bars : ~(pair[1] < k /\ k < pair[2])}}

\* new RegExp(pattern).test(value) for a pattern ^(alternative|...) of
\* literal alternatives: an alternative matches at the start of the value,
\* and one ending in $ must also reach the end of the value
RegExpTest(pattern, value) ==
    /\ StartsWith(pattern, "^(")
    /\ SubSeq(pattern, Len(pattern), Len(pattern)) = ")"
    /\ \E alt \in Alternatives(SubSeq(pattern, 3, Len(pattern) - 1)) :
           IF Len(alt) > 0 /\ SubSeq(alt, Len(alt), Len(alt)) = "$"
           THEN value = SubSeq(alt, 1, Len(alt) - 1)
           ELSE StartsWith(value, alt)

\* the href values of the model
Hrefs ==
    {"http://example.com/", "https://example.com/", "http:", "https:",
     "undefined", "undefined/", "undefinedhttp:", "xundefined",
     "javascript:alert(1)", "mailto:a@example.com", "ftp://example.com/",
     "", "HTTP://example.com/", "//example.com/", " http://example.com/",
     "httpx://example.com/", "http//example.com/", "/page/",
     "data:text/html,http:"}

\* the data of a link entity: some of its attributes, with their values
LinkData ==
    UNION {{[name \in names |-> IF name = "href" THEN href ELSE "7"] :
                href \in Hrefs} :
           names \in SUBSET {"href", "url", "id", "parentId", "target"}}

\* the plugins registered for draftail's LINK entities
LinkPlugins ==
    {features[i].plugin : i \in {j \in 1..Len(features) :
        /\ features[j].call = "register_editor_plugin"
        /\ features[j].editor = "draftail"
        /\ features[j].feature = "link"}}

\* the editor filters a link entity with the options of the link plugin
FilterLinkEntity ==
    /\ Idle
    /\ \E plugin \in LinkPlugins, data \in LinkData :
           returned' =
                  [op |-> "filter_link_entity", data |-> data,
                   kept |-> \A attr \in DOMAIN plugin.whitelist :
                       RegExpTest(plugin.whitelist[attr],
                                  IF attr \in DOMAIN data THEN data[attr]
                                  ELSE "undefined"),
                   out |-> [name \in {plugin.attributes[i] :
                                          i \in DOMAIN plugin.attributes}
                                      \cap DOMAIN data |-> data[name]]]
    /\ UNCHANGED <<startup, registries>>

\* the host has rendered what the callback returned
Rendered ==
    /\ returned.op # "none"
    /\ returned' = [op |-> "none"]
    /\ UNCHANGED <<startup, registries>>

Next ==
    \/ RegisterAdminMenuItem
    \/ RegisterAdminSearchArea
    \/ RegisterSettingsMenuItem
    \/ RegisterReportsMenuItem
    \/ RegisterRichTextFeatures
    \/ RegisterIcons
    \/ RegisterLogActions
    \/ PageListingButtons
    \/ PageListingMoreButtons
    \/ IsShown
    \/ GetContext
    \/ FilterLinkEntity
    \/ AccountMenuItem
    \/ LogMessage
    \/ Rendered

Spec == Init /\ [][Next]_vars

\* startup alone: the registration functions run, no request is served yet
NextStartup ==
    \/ RegisterAdminMenuItem
    \/ RegisterAdminSearchArea
    \/ RegisterSettingsMenuItem
    \/ RegisterReportsMenuItem
    \/ RegisterRichTextFeatures
    \/ RegisterIcons
    \/ RegisterLogActions

SpecStartup == Init /\ [][NextStartup]_vars

(***************************************************************************)
(* Helpers of the properties.                                              *)
(***************************************************************************)
\* how many of the yielded buttons carry the label
CountLabel(buttons, label) ==
    Cardinality({i \in 1..Len(buttons) : buttons[i].label = label})

\* a str that is not empty
NonEmptyStr(v) == v.kind = "str" /\ v.s # ""

BoolToCount(b) == IF b THEN 1 ELSE 0

(***************************************************************************)
(* C1: page_listing_buttons yields 'Edit' iff can_edit(), 'View draft' iff *)
(* the page has unpublished changes and is previewable, 'View live' iff    *)
(* the page is live and its url is not empty, and 'Add child page' iff     *)
(* can_add_subpage(); each of them at most once.                           *)
(***************************************************************************)
C1_ListingButtonsIffVisible ==
    returned.op = "page_listing_buttons" =>
        /\ CountLabel(returned.out, "Edit") = BoolToCount(returned.page_perms.can_edit)
        /\ CountLabel(returned.out, "View draft") =
               BoolToCount(returned.page.has_unpublished_changes
                           /\ returned.page.previewable)
        /\ CountLabel(returned.out, "View live") =
               BoolToCount(returned.page.live /\ NonEmptyStr(returned.page.url))
        /\ CountLabel(returned.out, "Add child page") =
               BoolToCount(returned.page_perms.can_add_subpage)

\* a live page without a url, editable, a parent that takes subpages: the
\* listing shows Edit and Add child page and no View live
C1_Witness ==
    /\ returned.op = "page_listing_buttons"
    /\ returned.page.live /\ returned.page.url = Str("")
    /\ returned.page_perms.can_edit /\ returned.page_perms.can_add_subpage
    /\ returned.is_parent
    /\ ~returned.page.has_unpublished_changes
    /\ Len(returned.out) = 3

(***************************************************************************)
(* C2: page_listing_more_buttons yields 'Move' iff can_move(), 'Copy' iff  *)
(* can_copy(), 'Delete' iff can_delete(), 'Unpublish' iff can_unpublish()  *)
(* and both 'Revisions' and 'History' iff can_view_revisions(); with every *)
(* permission false it yields nothing.                                     *)
(***************************************************************************)
C2_MoreButtonsIffPermitted ==
    returned.op = "page_listing_more_buttons" =>
        /\ CountLabel(returned.out, "Move") = BoolToCount(returned.page_perms.can_move)
        /\ CountLabel(returned.out, "Copy") = BoolToCount(returned.page_perms.can_copy)
        /\ CountLabel(returned.out, "Delete") =
               BoolToCount(returned.page_perms.can_delete)
        /\ CountLabel(returned.out, "Unpublish") =
               BoolToCount(returned.page_perms.can_unpublish)
        /\ CountLabel(returned.out, "Revisions") =
               BoolToCount(returned.page_perms.can_view_revisions)
        /\ CountLabel(returned.out, "History") =
               BoolToCount(returned.page_perms.can_view_revisions)
        /\ (~returned.page_perms.can_move /\ ~returned.page_perms.can_copy
            /\ ~returned.page_perms.can_delete /\ ~returned.page_perms.can_unpublish
            /\ ~returned.page_perms.can_view_revisions => returned.out = <<>>)

\* a page that may be deleted but not unpublished: Delete without Unpublish
C2_Witness ==
    /\ returned.op = "page_listing_more_buttons"
    /\ returned.page_perms.can_delete /\ ~returned.page_perms.can_unpublish
    /\ returned.page_perms.can_view_revisions
    /\ CountLabel(returned.out, "Delete") = 1
    /\ CountLabel(returned.out, "History") = 1

(***************************************************************************)
(* C3: an item of this file is shown iff its permission predicate holds    *)
(* for request.user, whatever else the request holds: the Explorer item    *)
(* and the Pages search area iff the user has any page permission, the     *)
(* Collections (Workflows) settings item iff the user holds add, change or *)
(* delete under the collection (workflow) policy, the Locked Pages report  *)
(* iff the user can remove locks, the Site history report iff the user has *)
(* an explorable page.                                                     *)
(***************************************************************************)
C3_ShownIffPredicate ==
    returned.op = "is_shown" =>
        LET user == returned.request.user
            cls == returned.item.cls
        IN /\ cls \in {"ExplorerMenuItem", "PageSearchArea"} =>
                  (returned.out <=> user.has_any_page_permission)
           /\ cls = "CollectionsMenuItem" =>
                  (returned.out <=>
                      user.collection_perms \cap {"add", "change", "delete"} # {})
           /\ cls = "WorkflowsMenuItem" =>
                  (returned.out <=>
                      user.workflow_perms \cap {"add", "change", "delete"} # {})
           /\ cls = "LockedPagesMenuItem" => (returned.out <=> user.can_remove_locks)
           /\ cls = "SiteHistoryReportMenuItem" =>
                  (returned.out <=> user.explorable_pages # {})

\* a user who may only choose collections: the Collections item is hidden
C3_Witness ==
    /\ returned.op = "is_shown"
    /\ returned.item.cls = "CollectionsMenuItem"
    /\ returned.request.user.collection_perms = {"choose"}
    /\ returned.request.user.workflow_perms = {"add"}
    /\ ~returned.out

(***************************************************************************)
(* C4: every register_account_menu_item callback returns one item or None: *)
(* 'Change email' iff email management is enabled, 'Change password' iff   *)
(* password management is enabled and the user has a usable password,      *)
(* 'Notification preferences' iff the user can edit or publish pages,      *)
(* 'Language preferences' iff more than one admin language is available,   *)
(* 'Current Time Zone' iff more than one admin time zone is available;     *)
(* 'Set profile picture' and 'Change name' always.                         *)
(***************************************************************************)
\* the callback returned the item with this label
ReturnsItem(label) ==
    /\ returned.out.kind = "dict"
    /\ DOMAIN returned.out.items = {"url", "label", "help_text"}
    /\ returned.out.items["label"] = Str(label)

\* the callback returns the item when the condition holds, None otherwise
ItemIff(label, cond) ==
    IF cond THEN ReturnsItem(label) ELSE returned.out = None

C4_AccountItemIffCondition ==
    returned.op = "account_menu_item" =>
        LET user == returned.request.user
            env == returned.env
            fn == returned.fn
        IN /\ fn = "register_account_set_profile_picture" =>
                  ReturnsItem("Set profile picture")
           /\ fn = "register_account_change_email" =>
                  ItemIff("Change email", env.email_management_enabled)
           /\ fn = "register_account_change_password" =>
                  ItemIff("Change password",
                          env.password_management_enabled
                          /\ user.has_usable_password)
           /\ fn = "register_account_notification_preferences" =>
                  ItemIff("Notification preferences",
                          user.can_edit_pages \/ user.can_publish_pages)
           /\ fn = "register_account_preferred_language_preferences" =>
                  ItemIff("Language preferences",
                          Cardinality(env.admin_languages) > 1)
           /\ fn = "register_account_current_time_zone" =>
                  ItemIff("Current Time Zone",
                          Cardinality(env.admin_time_zones) > 1)
           /\ fn = "register_account_change_name" => ReturnsItem("Change name")

\* a user who can publish but not edit pages gets the notification item
C4_Witness ==
    /\ returned.op = "account_menu_item"
    /\ returned.fn = "register_account_notification_preferences"
    /\ ~returned.request.user.can_edit_pages
    /\ returned.request.user.can_publish_pages
    /\ ReturnsItem("Notification preferences")

(***************************************************************************)
(* The keys a formatter reads, for the properties of the formatters.       *)
(***************************************************************************)
\* data[path[1]][path[2]]... names a value: every key is in its mapping
RECURSIVE Present(_, _)
Present(v, path) ==
    \/ path = <<>>
    \/ /\ v.kind = "dict"
       /\ Head(path) \in DOMAIN v.items
       /\ Present(v.items[Head(path)], Tail(path))

\* the value data[path[1]][path[2]]... of a present path
RECURSIVE ValueAt(_, _)
ValueAt(v, path) ==
    IF path = <<>> THEN v ELSE ValueAt(v.items[Head(path)], Tail(path))

\* a value stands where the formatters expect a mapping and is none
RECURSIVE HasNonMapping(_)
HasNonMapping(v) ==
    /\ v.kind = "dict"
    /\ \E k \in DOMAIN v.items :
           \/ k \in {"revision", "source", "destination", "restriction",
                     "workflow", "task", "next"}
              /\ v.items[k].kind # "dict"
           \/ HasNonMapping(v.items[k])

\* the formatters of register_workflow_log_actions
WorkflowFormatters ==
    {"workflow_start_message", "workflow_approve_message",
     "workflow_reject_message"}

\* the generic label of each formatter
GenericLabel(fn) ==
    CASE fn = "revert_message" -> "Reverted to previous revision"
      [] fn = "schedule_revert_message" -> "Revision scheduled for publishing"
      [] fn = "copy_message" -> "Copied"
      [] fn = "move_message" -> "Moved"
      [] fn = "schedule_publish_message" -> "Page scheduled for publishing"
      [] fn = "unschedule_publish_message" -> "Page unscheduled from publishing"
      [] fn = "add_view_restriction" -> "Added view restriction"
      [] fn = "edit_view_restriction" -> "Updated view restriction"
      [] fn = "delete_view_restriction" -> "Removed view restriction"
      [] fn = "workflow_start_message" -> "Workflow started"
      [] fn = "workflow_approve_message" -> "Workflow task approved"
      [] fn = "workflow_reject_message" -> "Workflow task rejected. Workflow complete"

\* every key the formatter expects, in any of its branches
ExpectedKeys(fn) ==
    CASE fn = "revert_message" ->
             {<<"revision", "id">>, <<"revision", "created">>}
      [] fn = "schedule_revert_message" ->
             {<<"revision", "id">>, <<"revision", "created">>,
              <<"revision", "go_live_at">>}
      [] fn = "copy_message" -> {<<"source", "title">>}
      [] fn = "move_message" ->
             {<<"source", "title">>, <<"destination", "title">>}
      [] fn \in {"schedule_publish_message", "unschedule_publish_message"} ->
             {<<"revision", "has_live_version">>, <<"revision", "id">>,
              <<"revision", "created">>, <<"revision", "go_live_at">>}
      [] fn \in {"add_view_restriction", "edit_view_restriction",
                 "delete_view_restriction"} -> {<<"restriction", "title">>}
      [] fn = "workflow_start_message" ->
             {<<"workflow", "title">>, <<"workflow", "next", "title">>}
      [] fn = "workflow_approve_message" ->
             {<<"workflow", "title">>, <<"workflow", "next", "title">>,
              <<"workflow", "task", "title">>}
      [] fn = "workflow_reject_message" -> {<<"workflow", "task", "title">>}

\* the key whose value selects the branch of a formatter with an if
SelectorKey(fn) ==
    CASE fn \in {"schedule_publish_message", "unschedule_publish_message"} ->
             <<"revision", "has_live_version">>
      [] fn = "workflow_approve_message" -> <<"workflow", "next">>

\* the value of the selector is there and true
SelectorHolds(fn, data) ==
    /\ Present(data, SelectorKey(fn))
    /\ LET v == ValueAt(data, SelectorKey(fn))
       IN CASE v.kind = "bool" -> v.b
            [] v.kind = "dict" -> DOMAIN v.items # {}
            [] OTHER -> FALSE

\* the keys read by the branch the data selects
BranchKeys(fn, data) ==
    CASE fn \in {"schedule_publish_message", "unschedule_publish_message"} ->
             IF SelectorHolds(fn, data) THEN ExpectedKeys(fn)
             ELSE {<<"revision", "has_live_version">>,
                   <<"revision", "go_live_at">>}
      [] fn = "workflow_approve_message" ->
             IF SelectorHolds(fn, data)
             THEN {<<"workflow", "next", "title">>,
                   <<"workflow", "task", "title">>}
             ELSE {<<"workflow", "next">>, <<"workflow", "task", "title">>,
                   <<"workflow", "title">>}
      [] OTHER -> ExpectedKeys(fn)

\* the formatter returned its generic label
ReturnedGeneric == returned.out = Ok(Str(GenericLabel(returned.fn)))

\* the formatter returned a message built from the values of the data
ReturnedDetailed ==
    /\ returned.out.exc = "none"
    /\ returned.out.val.kind = "lazy"
    /\ \A i \in DOMAIN returned.out.val.kwargs :
           \E path \in ExpectedKeys(returned.fn) :
               /\ Present(returned.data, path)
               /\ returned.out.val.kwargs[i][2] = ValueAt(returned.data, path)

(***************************************************************************)
(* C5, as stated: a formatter returns the detailed message when all of its *)
(* expected keys are present and its generic label when any one of them is *)
(* missing.  Stated for data whose nested values are mappings: it fails    *)
(* where a branch does not read a key that is missing.                     *)
(***************************************************************************)
C5_GenericWhenAnyExpectedKeyMissing ==
    returned.op = "message" /\ ~HasNonMapping(returned.data) =>
        IF \A path \in ExpectedKeys(returned.fn) : Present(returned.data, path)
        THEN ReturnedDetailed
        ELSE ReturnedGeneric

(***************************************************************************)
(* C5, amended: a formatter returns the detailed message of the branch the *)
(* data selects when all the keys that branch reads are present, and its   *)
(* generic label when any one of them is missing; for data whose nested    *)
(* values are mappings and, for the workflow formatters, for every data    *)
(* (a value that is no mapping has no keys).                               *)
(***************************************************************************)
C5_GenericWhenBranchKeyMissing ==
    returned.op = "message"
    /\ (returned.fn \in WorkflowFormatters \/ ~HasNonMapping(returned.data)) =>
        IF \A path \in BranchKeys(returned.fn, returned.data) : Present(returned.data, path)
        THEN ReturnedDetailed
        ELSE ReturnedGeneric

\* a revision without a live version, scheduled, whose id is not in the data:
\* the 'Page scheduled for publishing at ...' message is returned
C5_Witness ==
    /\ returned.op = "message"
    /\ returned.fn = "schedule_publish_message"
    /\ Present(returned.data, <<"revision", "go_live_at">>)
    /\ Present(returned.data, <<"revision", "has_live_version">>)
    /\ ~SelectorHolds(returned.fn, returned.data)
    /\ ~Present(returned.data, <<"revision", "id">>)
    /\ ReturnedDetailed
    /\ returned.out.val.format_string = "Page scheduled for publishing at {go_live_at}"

(***************************************************************************)
(* C6, as stated: no formatter propagates an exception, whichever expected *)
(* field is absent or holds None instead of a nested mapping.              *)
(***************************************************************************)
C6_FormatterNeverRaises ==
    returned.op = "message" => returned.out.exc = "none"

(***************************************************************************)
(* C7: after register_icons has run the icon list holds no entry twice,    *)
(* and every entry is 'wagtailadmin/icons/' followed by an icon file name. *)
(***************************************************************************)
C7_IconsDistinctAndTemplated ==
    "register_icons" \in startup =>
        /\ \A i, j \in 1..Len(icons) : i # j => icons[i] # icons[j]
        /\ \A i \in 1..Len(icons) :
               \E j \in 1..Len(IconFiles) :
                   icons[i] = "wagtailadmin/icons/" \o IconFiles[j]

\* the hook has run and appended every icon of the file
C7_Witness ==
    /\ "register_icons" \in startup
    /\ Len(icons) = Len(IconFiles)
    /\ icons[1] = "wagtailadmin/icons/arrow-down-big.svg"
    /\ icons[Len(icons)] = "wagtailadmin/icons/warning.svg"

(***************************************************************************)
(* What the conversion engine does with a 'contentstate' rule.             *)
(***************************************************************************)
\* a storage element: its tag, the tag of the element wrapping it, and its
\* attributes
StorageElement(tag, wrapper, attrs) ==
    [tag |-> tag, wrapper |-> wrapper, attrs |-> attrs]

NoAttrs == [a \in {} |-> ""]

\* the elements to_database_format writes for a map value: the element of a
\* block or style, or what the entity's decorator creates; link_entity
\* writes a page link (linktype and id) or an external link (href)
WrittenElements(value) ==
    IF "decorator" \in DOMAIN value
    THEN CASE value.decorator = "DOM.create_element('hr')" ->
                  {StorageElement("hr", "", NoAttrs)}
           [] value.decorator = "link_entity" ->
                  {StorageElement("a", "", "href" :> "https://example.com/"),
                   StorageElement("a", "", "linktype" :> "page" @@ "id" :> "7")}
    ELSE {StorageElement(value.element, value.wrapper, NoAttrs)}

\* a from_database_format selector matches a tag with its attributes
SelectorMatches(selector, tag, attrs) ==
    CASE selector = "a[href]" -> tag = "a" /\ "href" \in DOMAIN attrs
      [] selector = "a[linktype=\"page\"]" ->
             /\ tag = "a"
             /\ "linktype" \in DOMAIN attrs
             /\ attrs["linktype"] = "page"
      [] OTHER -> selector = tag

\* the editor types from_database_format gives a storage element: the type
\* of the handler matching the element; a list item takes the type that the
\* handler of its wrapping list sets
DecodedTypes(from_database_format, e) ==
    UNION {
        LET h == from_database_format[sel]
        IN IF ~SelectorMatches(sel, e.tag, e.attrs) THEN {}
           ELSE CASE h.cls = "ListItemElementHandler" ->
                         {from_database_format[w].type :
                              w \in {x \in DOMAIN from_database_format :
                                  /\ SelectorMatches(x, e.wrapper, NoAttrs)
                                  /\ from_database_format[x].cls
                                         = "ListElementHandler"}}
                  [] h.cls = "ListElementHandler" -> {}
                  [] h.cls = "HorizontalRuleHandler" -> {"HORIZONTAL_RULE"}
                  [] OTHER -> {h.type}
        : sel \in DOMAIN from_database_format}

\* the 'contentstate' rules registered so far
ContentstateRules ==
    {features[i].rule : i \in {j \in 1..Len(features) :
        /\ features[j].call = "register_converter_rule"
        /\ features[j].converter = "contentstate"}}

(***************************************************************************)
(* C8: for every 'contentstate' rule registered, each editor type named in *)
(* to_database_format is written to a storage element that the same        *)
(* rule's from_database_format maps back to that editor type.              *)
(***************************************************************************)
C8_EditorTypeRoundTrip ==
    \A rule \in ContentstateRules :
        \A type \in DOMAIN rule.to_database_format.map :
            \A e \in WrittenElements(rule.to_database_format.map[type]) :
                DecodedTypes(rule.from_database_format, e) = {type}

\* the features are registered: ordered-list-item is written as li in ol
\* and read back, and LINK is written as a page link and read back
C8_Witness ==
    /\ \E rule \in ContentstateRules :
           /\ "ordered-list-item" \in DOMAIN rule.to_database_format.map
           /\ StorageElement("li", "ol", NoAttrs) \in
                  WrittenElements(
                      rule.to_database_format.map["ordered-list-item"])
           /\ DecodedTypes(rule.from_database_format,
                           StorageElement("li", "ol", NoAttrs))
                  = {"ordered-list-item"}
    /\ \E rule \in ContentstateRules :
           /\ "LINK" \in DOMAIN rule.to_database_format.map
           /\ DecodedTypes(rule.from_database_format,
                  StorageElement("a", "", "linktype" :> "page" @@ "id" :> "7"))
                  = {"LINK"}

(***************************************************************************)
(* C9: no action code is passed to register_action more than once, across  *)
(* register_core_log_actions and register_workflow_log_actions.            *)
(***************************************************************************)
C9_ActionCodesUnique ==
    \A i, j \in 1..Len(actions) : i # j => actions[i].code # actions[j].code

\* both functions have run: the core and the workflow codes are registered
C9_Witness ==
    /\ {"register_core_log_actions", "register_workflow_log_actions"}
           \subseteq startup
    /\ \E i, j \in 1..Len(actions) :
           /\ actions[i].code = "wagtail.moderation.approve"
           /\ actions[j].code = "wagtail.workflow.approve"

(***************************************************************************)
(* Plugins and converter rules by editor backend.                          *)
(***************************************************************************)
\* the features the claim names
SupportedFeatures ==
    {"bold", "italic", "h1", "h2", "h3", "h4", "h5", "h6", "ol", "ul", "link",
     "superscript", "subscript", "strikethrough", "code", "hr"}

\* the features Hallo.js supports
HalloFeatures ==
    {"bold", "italic", "h1", "h2", "h3", "h4", "h5", "h6", "ol", "ul", "link",
     "hr"}

Backends == {"hallo", "draftail"}

\* the converter of the backend's storage format
ConverterOf(backend) ==
    IF backend = "hallo" THEN "editorhtml" ELSE "contentstate"

HasPlugin(backend, feature) ==
    \E i \in 1..Len(features) :
        /\ features[i].call = "register_editor_plugin"
        /\ features[i].editor = backend
        /\ features[i].feature = feature

HasConverterRule(backend, feature) ==
    \E i \in 1..Len(features) :
        /\ features[i].call = "register_converter_rule"
        /\ features[i].converter = ConverterOf(backend)
        /\ features[i].feature = feature

\* every feature identifier passed to the registry
RegisteredFeatures == {features[i].feature : i \in 1..Len(features)}

(***************************************************************************)
(* C10, as stated: once register_core_features has run, each supported     *)
(* feature has, for each of hallo and draftail, a plugin and a converter   *)
(* rule under its identifier.                                              *)
(***************************************************************************)
C10_EveryFeatureOnBothBackends ==
    "register_core_features" \in startup =>
        \A backend \in Backends, feature \in SupportedFeatures :
            HasPlugin(backend, feature) /\ HasConverterRule(backend, feature)

(***************************************************************************)
(* C10, amended: once register_core_features has run, each supported       *)
(* feature has a plugin and a converter rule for draftail; for hallo so    *)
(* have bold, italic, h1-h6, ol, ul, link and hr, and superscript,         *)
(* subscript, strikethrough and code have neither; and for each backend a  *)
(* feature identifier has a plugin iff it has a converter rule.            *)
(***************************************************************************)
C10_PluginIffConverterRule ==
    "register_core_features" \in startup =>
        /\ \A feature \in SupportedFeatures :
               /\ HasPlugin("draftail", feature)
               /\ HasConverterRule("draftail", feature)
               /\ HasPlugin("hallo", feature) <=> feature \in HalloFeatures
        /\ \A backend \in Backends, feature \in RegisteredFeatures :
               HasPlugin(backend, feature) <=> HasConverterRule(backend, feature)

\* the features are registered: superscript is a draftail feature with
\* both parts, and has neither part for hallo
C10_Witness ==
    /\ "register_core_features" \in startup
    /\ HasPlugin("draftail", "superscript")
    /\ HasConverterRule("draftail", "superscript")
    /\ ~HasPlugin("hallo", "superscript")
    /\ ~HasConverterRule("hallo", "superscript")
    /\ HasPlugin("hallo", "ul") /\ HasConverterRule("hallo", "ul")

(***************************************************************************)
(* C11: once every registration function has run, no step changes the      *)
(* registered menu items, search areas, icon list, rich-text plugins and   *)
(* converter rules or log actions: every request-time callback (is_shown,  *)
(* get_context, page_listing_buttons, page_listing_more_buttons, the       *)
(* account callbacks, the message formatters) leaves them as they were.    *)
(***************************************************************************)
C11_RegistriesFrozenAfterStartup ==
    [][StartupDone => registries' = registries]_vars

\* get_context has returned a context with a start page, after every
\* registration function has run and filled its registry
C11_Witness ==
    /\ StartupDone
    /\ returned.op = "get_context"
    /\ "start_page_id" \in DOMAIN returned.out
    /\ Len(admin_menu) = 3 /\ Len(icons) > 0
    /\ Len(features) > 0 /\ Len(actions) > 0

(***************************************************************************)
(* The storage side of a 'contentstate' rule: a selector of                *)
(* from_database_format, the editor type its handler gives, and the tag    *)
(* to_database_format writes for that type.                                *)
(***************************************************************************)
\* the tag a from_database_format selector accepts
SelectorTag(selector) ==
    CASE selector = "a[href]" -> "a"
      [] selector = "a[linktype=\"page\"]" -> "a"
      [] OTHER -> selector

\* the tags a rule writes back for what a selector accepts: the elements of
\* the editor types its handler gives; a list element sets the type of its
\* items and comes back as the wrapper written around them
RoundTripTags(rule, selector) ==
    LET from == rule.from_database_format
        to == rule.to_database_format.map
        h == from[selector]
        lists == {x \in DOMAIN from : from[x].cls = "ListElementHandler"}
        types == CASE h.cls = "ListItemElementHandler" ->
                          {from[x].type : x \in lists}
                   [] h.cls = "HorizontalRuleHandler" -> {"HORIZONTAL_RULE"}
                   [] OTHER -> {h.type}
        written == UNION {WrittenElements(to[t]) : t \in types \cap DOMAIN to}
    IN  IF h.cls = "ListElementHandler"
        THEN {e.wrapper : e \in written}
        ELSE {e.tag : e \in written}

(***************************************************************************)
(* C12 as stated: for every 'contentstate' rule registered and every       *)
(* selector of its from_database_format, the accepted tag converted to its *)
(* editor type and written back by the same rule's to_database_format is   *)
(* that same tag.                                                          *)
(***************************************************************************)
C12_StorageTagRoundTrip ==
    \A rule \in ContentstateRules :
        \A selector \in DOMAIN rule.from_database_format :
            RoundTripTags(rule, selector) = {SelectorTag(selector)}

(***************************************************************************)
(* C12 amended: every accepted tag is written back as exactly one tag,     *)
(* which is the accepted tag itself except for strong, written back as b,  *)
(* and em, written back as i; the tag written back is accepted by the same *)
(* rule and is written back as itself.                                     *)
(***************************************************************************)
C12_StorageTagRoundTripOrCanonical ==
    \A rule \in ContentstateRules :
        \A selector \in DOMAIN rule.from_database_format :
            LET tags == RoundTripTags(rule, selector)
            IN  /\ selector \notin {"strong", "em"} =>
                       tags = {SelectorTag(selector)}
                /\ selector = "strong" => tags = {"b"}
                /\ selector = "em" => tags = {"i"}
                /\ \A t \in tags :
                       \E back \in DOMAIN rule.from_database_format :
                           /\ SelectorTag(back) = t
                           /\ RoundTripTags(rule, back) = {t}

\* the features are registered: sup comes back as sup, ul as ul, strong as
\* b and em as i
C12_Witness ==
    /\ "register_core_features" \in startup
    /\ \E rule \in ContentstateRules :
           /\ "sup" \in DOMAIN rule.from_database_format
           /\ RoundTripTags(rule, "sup") = {"sup"}
    /\ \E rule \in ContentstateRules :
           /\ "ul" \in DOMAIN rule.from_database_format
           /\ RoundTripTags(rule, "ul") = {"ul"}
    /\ \E rule \in ContentstateRules :
           /\ "strong" \in DOMAIN rule.from_database_format
           /\ RoundTripTags(rule, "strong") = {"b"}
    /\ \E rule \in ContentstateRules :
           /\ "em" \in DOMAIN rule.from_database_format
           /\ RoundTripTags(rule, "em") = {"i"}

(***************************************************************************)
(* The two messages of schedule_publish_message and of                     *)
(* unschedule_publish_message.                                             *)
(***************************************************************************)
PublishFormatters == {"schedule_publish_message", "unschedule_publish_message"}

\* the format string of the branch for a revision with a live version
\* (live) and of the branch for one without
PublishFormat(fn, live) ==
    CASE fn = "schedule_publish_message" /\ live ->
             "Revision {revision_id} from {created_at} scheduled for publishing at {go_live_at}."
      [] fn = "schedule_publish_message" /\ ~live ->
             "Page scheduled for publishing at {go_live_at}"
      [] fn = "unschedule_publish_message" /\ live ->
             "Revision {revision_id} from {created_at} unscheduled from publishing at {go_live_at}."
      [] fn = "unschedule_publish_message" /\ ~live ->
             "Page unscheduled for publishing at {go_live_at}"

(***************************************************************************)
(* C13 as stated: schedule_publish_message and unschedule_publish_message  *)
(* return the 'Revision ...' message when has_live_version is truthy and   *)
(* id, created and go_live_at are present, the 'Page ...' message when it  *)
(* is falsy and go_live_at is present, and the generic label whenever any  *)
(* of has_live_version, id, created, go_live_at is absent.  Stated for     *)
(* data whose 'revision', when present, is a mapping.                      *)
(***************************************************************************)
C13_PublishMessageAnyFieldAbsent ==
    returned.op = "message" /\ returned.fn \in PublishFormatters
    /\ ~HasNonMapping(returned.data) =>
        LET has(f) == Present(returned.data, <<"revision", f>>)
            val(f) == ValueAt(returned.data, <<"revision", f>>)
            live == has("has_live_version") /\ Truthy(val("has_live_version"))
            dead == has("has_live_version") /\ ~Truthy(val("has_live_version"))
        IN  /\ live /\ has("id") /\ has("created") /\ has("go_live_at") =>
                   returned.out = Ok([kind |-> "lazy",
                       format_string |-> PublishFormat(returned.fn, TRUE),
                       kwargs |-> << <<"revision_id", val("id")>>,
                                     <<"created_at", val("created")>>,
                                     <<"go_live_at", val("go_live_at")>> >>])
            /\ dead /\ has("go_live_at") =>
                   returned.out = Ok([kind |-> "lazy",
                       format_string |-> PublishFormat(returned.fn, FALSE),
                       kwargs |-> << <<"go_live_at", val("go_live_at")>> >>])
            /\ (\E f \in RevisionKeys : ~has(f)) => ReturnedGeneric

(***************************************************************************)
(* C13 amended: the same two messages, and the generic label when          *)
(* has_live_version or go_live_at is absent, or when has_live_version is   *)
(* truthy and id or created is absent; id and created are not read when    *)
(* has_live_version is falsy.  For data whose 'revision', when present, is *)
(* a mapping.                                                              *)
(***************************************************************************)
C13_PublishMessageByLiveVersion ==
    returned.op = "message" /\ returned.fn \in PublishFormatters
    /\ ~HasNonMapping(returned.data) =>
        LET has(f) == Present(returned.data, <<"revision", f>>)
            val(f) == ValueAt(returned.data, <<"revision", f>>)
            live == has("has_live_version") /\ Truthy(val("has_live_version"))
            dead == has("has_live_version") /\ ~Truthy(val("has_live_version"))
        IN  /\ live /\ has("id") /\ has("created") /\ has("go_live_at") =>
                   returned.out = Ok([kind |-> "lazy",
                       format_string |-> PublishFormat(returned.fn, TRUE),
                       kwargs |-> << <<"revision_id", val("id")>>,
                                     <<"created_at", val("created")>>,
                                     <<"go_live_at", val("go_live_at")>> >>])
            /\ dead /\ has("go_live_at") =>
                   returned.out = Ok([kind |-> "lazy",
                       format_string |-> PublishFormat(returned.fn, FALSE),
                       kwargs |-> << <<"go_live_at", val("go_live_at")>> >>])
            /\ \/ ~has("has_live_version")
               \/ ~has("go_live_at")
               \/ live /\ (~has("id") \/ ~has("created"))
               => ReturnedGeneric

\* unschedule_publish_message is called for a revision whose
\* has_live_version is None, with go_live_at and without id and created: the
\* 'Page unscheduled ...' message is returned
C13_Witness ==
    /\ returned.op = "message"
    /\ returned.fn = "unschedule_publish_message"
    /\ returned.data = Dict("revision" :>
           Dict("has_live_version" :> None @@ "go_live_at" :> Str("2 June")))
    /\ returned.out.exc = "none"
    /\ returned.out.val.kind = "lazy"
    /\ returned.out.val.format_string =
           "Page unscheduled for publishing at {go_live_at}"

(***************************************************************************)
(* C14: for every event data, workflow_approve_message returns "Approved   *)
(* at '{task}'. Next step '{next_task}'" when data['workflow']['next'] is  *)
(* present and truthy, "Approved at '{task}'. '{workflow}' complete" when  *)
(* it is present and falsy, each when the titles it needs are there, and   *)
(* the generic 'Workflow task approved' when 'workflow', 'next', 'task' or *)
(* a needed 'title' is absent or a nested value is no mapping; and         *)
(* workflow_start_message returns the generic 'Workflow started' when      *)
(* data['workflow']['next'] is None.                                       *)
(***************************************************************************)
C14_ApproveMessageThreeCases ==
    returned.op = "message" =>
        LET has(path) == Present(returned.data, path)
            val(path) == ValueAt(returned.data, path)
            next == <<"workflow", "next">>
            task_title == <<"workflow", "task", "title">>
            next_title == <<"workflow", "next", "title">>
            workflow_title == <<"workflow", "title">>
            more == has(next) /\ Truthy(val(next))
            final == has(next) /\ ~Truthy(val(next))
            step == more /\ has(task_title) /\ has(next_title)
            complete == final /\ has(task_title) /\ has(workflow_title)
        IN  /\ returned.fn = "workflow_approve_message" =>
                /\ step =>
                       returned.out = Ok([kind |-> "lazy",
                           format_string |->
                               "Approved at '{task}'. Next step '{next_task}'",
                           kwargs |-> << <<"task", val(task_title)>>,
                                         <<"next_task", val(next_title)>> >>])
                /\ complete =>
                       returned.out = Ok([kind |-> "lazy",
                           format_string |->
                               "Approved at '{task}'. '{workflow}' complete",
                           kwargs |-> << <<"task", val(task_title)>>,
                                         <<"workflow", val(workflow_title)>> >>])
                /\ ~step /\ ~complete =>
                       returned.out = Ok(Str("Workflow task approved"))
            /\ returned.fn = "workflow_start_message"
                   /\ has(next) /\ val(next) = None =>
                       returned.out = Ok(Str("Workflow started"))

\* the final task is approved: next is None, the task and the workflow have
\* their titles, and the 'complete' message is returned
C14_Witness ==
    /\ returned.op = "message"
    /\ returned.fn = "workflow_approve_message"
    /\ Present(returned.data, <<"workflow", "next">>)
    /\ ValueAt(returned.data, <<"workflow", "next">>) = None
    /\ Present(returned.data, <<"workflow", "task", "title">>)
    /\ Present(returned.data, <<"workflow", "title">>)
    /\ returned.out.exc = "none"
    /\ returned.out.val.kind = "lazy"
    /\ returned.out.val.format_string =
           "Approved at '{task}'. '{workflow}' complete"

(***************************************************************************)
(* C15, as stated: within each extension point of the file every item      *)
(* carries an explicit order or priority and no two items of the same      *)
(* extension point carry the same one: the admin menu (100, 9000, 10000),  *)
(* the settings menu (100, 700), the reports menu (700, 800, 900, 1000),   *)
(* the buttons page_listing_buttons yields and the buttons                 *)
(* page_listing_more_buttons yields.                                       *)
(***************************************************************************)
C15_OrdersPairwiseDistinct ==
    /\ \A menu \in {admin_menu, settings_menu, reports_menu} :
           \A i, j \in DOMAIN menu : i # j => menu[i].order # menu[j].order
    /\ StartupDone =>
           /\ {admin_menu[i].order : i \in DOMAIN admin_menu}
                  = {100, 9000, 10000}
           /\ {settings_menu[i].order : i \in DOMAIN settings_menu}
                  = {100, 700}
           /\ {reports_menu[i].order : i \in DOMAIN reports_menu}
                  = {700, 800, 900, 1000}
    /\ returned.op \in {"page_listing_buttons", "page_listing_more_buttons"} =>
           \A i, j \in DOMAIN returned.out :
               i # j => returned.out[i].priority # returned.out[j].priority

(***************************************************************************)
(* C16: the link plugin's whitelist keeps a link entity iff its href       *)
(* starts with 'http:' or 'https:' or is exactly 'undefined' (the data has *)
(* no href); every other href is rejected, other schemes and texts that    *)
(* only start with 'undefined' included; and of the entity's data only     *)
(* url, id and parentId are kept.                                          *)
(***************************************************************************)
C16_LinkWhitelist ==
    returned.op = "filter_link_entity" =>
        LET href == IF "href" \in DOMAIN returned.data
                    THEN returned.data["href"] ELSE "undefined"
        IN  /\ returned.kept <=>
                   \/ StartsWith(href, "http:")
                   \/ StartsWith(href, "https:")
                   \/ href = "undefined"
            /\ href \in {"javascript:alert(1)", "mailto:a@example.com",
                          "ftp://example.com/", "undefined/",
                          "undefinedhttp:"} => ~returned.kept
            /\ DOMAIN returned.out
                   = DOMAIN returned.data \cap {"url", "id", "parentId"}
            /\ \A name \in DOMAIN returned.out :
                   returned.out[name] = returned.data[name]

\* a link whose href only starts with 'undefined' is filtered: it is
\* rejected, and of its data url is kept and target is not
C16_Witness ==
    /\ returned.op = "filter_link_entity"
    /\ DOMAIN returned.data = {"href", "url", "target"}
    /\ returned.data["href"] = "undefined/"
    /\ ~returned.kept
    /\ DOMAIN returned.out = {"url"}

(***************************************************************************)
(* C17: for every page, permissions, is_parent and next_url,               *)
(* page_listing_buttons yields a non-empty sequence whose last element is  *)
(* the 'More' dropdown button (hook register_page_listing_more_buttons,    *)
(* priority 50), yielded exactly once, and the priorities of the yielded   *)
(* buttons are strictly increasing in yield order: Edit 10, View draft 20, *)
(* View live 30, Add child page 40, More 50.                               *)
(***************************************************************************)
C17_MoreButtonLastPrioritiesIncreasing ==
    returned.op = "page_listing_buttons" =>
        LET out == returned.out
            last == out[Len(out)]
        IN  /\ Len(out) >= 1
            /\ last.label = "More"
            /\ last.cls = "ButtonWithDropdownFromHook"
            /\ last.hook_name = "register_page_listing_more_buttons"
            /\ last.priority = 50
            /\ CountLabel(out, "More") = 1
            /\ \A i, j \in DOMAIN out :
                   i < j => out[i].priority < out[j].priority
            /\ \A i \in DOMAIN out :
                   out[i].priority =
                       CASE out[i].label = "Edit" -> 10
                         [] out[i].label = "View draft" -> 20
                         [] out[i].label = "View live" -> 30
                         [] out[i].label = "Add child page" -> 40
                         [] out[i].label = "More" -> 50

\* every condition holds: the five buttons are yielded, 'More' the last
C17_Witness ==
    /\ returned.op = "page_listing_buttons"
    /\ Len(returned.out) = 5
    /\ returned.out[4].label = "Add child page"
    /\ returned.out[5].label = "More"
    /\ returned.page_perms.can_edit /\ returned.page_perms.can_add_subpage

(***************************************************************************)
(* C18: append_querystring(path, querystring) is path when querystring is  *)
(* None or empty and path, '?' and querystring otherwise; of the buttons   *)
(* page_listing_more_buttons yields, the URLs of Copy, Delete and          *)
(* Unpublish are the view's URL with next_url appended this way, and the   *)
(* URLs of Move, Revisions and History are the view's URL alone.           *)
(***************************************************************************)
C18_NextUrlOnCopyDeleteUnpublish ==
    returned.op = "page_listing_more_buttons" =>
        \A i \in DOMAIN returned.out :
            LET button == returned.out[i]
                id == returned.page.id
                next_url == returned.next_url
                appended(path) ==
                    IF next_url = None \/ next_url = Str("") THEN path
                    ELSE path \o "?" \o next_url.s
            IN  button.url =
                    CASE button.label = "Move" ->
                             "/wagtailadmin_pages:move/" \o id \o "/"
                      [] button.label = "Copy" ->
                             appended("/wagtailadmin_pages:copy/" \o id \o "/")
                      [] button.label = "Delete" ->
                             appended("/wagtailadmin_pages:delete/" \o id \o "/")
                      [] button.label = "Unpublish" ->
                             appended("/wagtailadmin_pages:unpublish/"
                                      \o id \o "/")
                      [] button.label = "Revisions" ->
                             "/wagtailadmin_pages:revisions_index/"
                                 \o id \o "/"
                      [] button.label = "History" ->
                             "/wagtailadmin_pages:history/" \o id \o "/"

\* the six buttons are yielded with a next_url: Copy carries it, Move does
\* not
C18_Witness ==
    /\ returned.op = "page_listing_more_buttons"
    /\ returned.next_url = Str("next=/admin/")
    /\ Len(returned.out) = 6
    /\ returned.out[1].label = "Move"
    /\ returned.out[1].url = "/wagtailadmin_pages:move/7/"
    /\ returned.out[2].label = "Copy"
    /\ returned.out[2].url = "/wagtailadmin_pages:copy/7/?next=/admin/"

====
